---- MODULE Spec2Model ----
(***************************************************************************)
(* Model of the crypto-trader strategy evaluation pipeline.                *)
(*                                                                         *)
(* Part 1: the promotion state machine (src/lib/evaluation/promoter.ts,    *)
(* src/lib/evaluation/evaluator.ts), the live configuration store          *)
(* (src/lib/store.ts) and the configuration route                          *)
(* (src/app/api/trading/config/route.ts).                                  *)
(*                                                                         *)
(* Units: scores and drawdowns are in percent (0.60 is 60, 0.08 is 8),     *)
(* weights in per-mille (0.333 is 333), days and minutes are integers.     *)
(***************************************************************************)
EXTENDS Integers, Sequences, FiniteSets, TLC

VARIABLES
    cand,       \* table strategy_candidates: id -> row (its mutable columns)
    configRow,  \* table config, row id 1: sequence of 0 or 1 TradingConfig
    clock,      \* the wall clock read by new Date() in updateCandidateStatus
    last,       \* the handler call that ran last: its arguments and result
    pcs,        \* per request in flight: its handler, position and locals
    startDb,    \* the database the requests of a behaviour started from
    simConfig,  \* TradeSimulator: constructor arguments (capital, config)
    simA,       \* TradeSimulator instance A: its SimulatorState
    simB,       \* TradeSimulator instance B, fed the calls A was fed
    fed,        \* the processCandle calls made on A so far, in order
    replayed,   \* the number of those calls made on B so far
    pausedAt,   \* the ticks of A with drawdown >= 10 %, by index in fed
    paperPortfolio, \* table paper_portfolio, row id 1: 0 or 1 PortfolioState
    livePortfolio,  \* table portfolio, row id 1: 0 or 1 PortfolioState
    ticked,     \* the portfolio operation that ran last
    tickDb,     \* the time and the other tables the trading ticks write
    historical, \* runBacktest: the candle series fetched for each pair
    timeline,   \* runBacktest: the timestamps its loop goes through, in order
    cursor,     \* runBacktest: the number of timestamps the loop has done
    handed,     \* runBacktest: what the last iteration derived for its tick
    run,        \* runBacktest: the row of backtest_runs and how the call ended
    opt,        \* the optimizer operation in progress: its position and locals
    fnArgs,     \* the arguments of a pure function under test
    fnResult    \* what the function returned for them

\* the variables of the trade simulator
simVars == <<simConfig, simA, simB, fed, replayed, pausedAt>>

\* the variables of the paper and live trading ticks
tickVars == <<paperPortfolio, livePortfolio, ticked, tickDb>>

\* the variables of the backtest driver
btVars == <<historical, timeline, cursor, handed>>

\* the variables of the optimizer and of the functions checked on their own
optVars == <<run, opt>>
fnVars == <<fnArgs, fnResult>>

vars == <<cand, configRow, clock, last, pcs, startDb, simVars, tickVars, btVars,
          optVars, fnVars>>

----------------------------------------------------------------------------
(* Bounds *)

NumCandidates == 2      \* rows of strategy_candidates
MaxClock == 2           \* calls that read the clock, in one behaviour
NumProcs == 2           \* concurrent requests in SpecConc

----------------------------------------------------------------------------
(* Values *)

\* SQL NULL / JS null of the nullable numeric columns backtest_score,
\* paper_score and promoted_at (all other values of these columns are >= 0)
Null == -1

(* The tables next to the portfolios: of the rows of state and paper_state  *)
(* the model keeps lastTickTime, of paper_trades and paper_pnl_history the  *)
(* number of rows.  now is the time, which every request advances, status   *)
(* what the last tick returned.                                             *)
NoTicks ==
    [now |-> 0, state |-> Null, paper_state |-> Null,
     paper_trades |-> 0, paper_pnl_history |-> 0, status |-> "none"]

Ids == 1..NumCandidates

\* ids a caller may pass: the known ones and one unknown id
ArgIds == 1..(NumCandidates + 1)

EqualWeights == [BTC_EUR |-> 333, ETH_EUR |-> 333, SOL_EUR |-> 334]
BtcHeavy == [BTC_EUR |-> 500, ETH_EUR |-> 300, SOL_EUR |-> 200]
EthHeavy == [BTC_EUR |-> 300, ETH_EUR |-> 500, SOL_EUR |-> 200]

\* the StrategyParams an optimizer run stored with candidate id: points of
\* PARAMETER_RANGES and BASE_WEIGHT_VARIATIONS, different for each id and
\* different from the defaults of the live configuration
CandidateParams(id) ==
    [maxTradePercent |-> IF id % 2 = 1 THEN 25 ELSE 30,
     stopLossPercent |-> 5 + id,
     cooldownMinutes |-> IF id % 2 = 1 THEN 45 ELSE 15,
     rsiOversoldThreshold |-> 25,
     rsiOverboughtThreshold |-> 75,
     baseWeights |-> IF id % 2 = 1 THEN BtcHeavy ELSE EthHeavy]

\* store.ts DEFAULT_CONFIG: what getConfig returns while the row is missing
DEFAULT_CONFIG ==
    [enabled |-> FALSE,
     pairs |-> <<"BTC-EUR", "ETH-EUR", "SOL-EUR">>,
     baseWeights |-> EqualWeights,
     maxTradePercent |-> 20,
     minTradeSizeEur |-> 5,
     cooldownMinutes |-> 30,
     stopLossPercent |-> 5,
     maxDrawdownPercent |-> 10,
     aiEnabled |-> TRUE]

\* promoter.ts DEFAULT_PROMOTION_CRITERIA
DEFAULT_PROMOTION_CRITERIA ==
    [minBacktestScore |-> 60,
     minPaperDays |-> 7,
     minPaperScore |-> 55,
     maxPaperDrawdown |-> 8]

----------------------------------------------------------------------------
(* store.ts: the live configuration *)

\* getConfig: the stored row, or DEFAULT_CONFIG while there is none
getConfig(row) == IF row = <<>> THEN DEFAULT_CONFIG ELSE row[1]

\* setConfig: upsert of the whole row (db is the database a handler works on;
\* writes counts the handler's setConfig calls)
setConfig(db, c) == [db EXCEPT !.configRow = <<c>>, !.writes = @ + 1]

\* JS object spread {...a, ...b}: the keys of both, b's value where b has one
Spread(a, b) ==
    [k \in (DOMAIN a) \cup (DOMAIN b) |-> IF k \in DOMAIN b THEN b[k] ELSE a[k]]

----------------------------------------------------------------------------
(* evaluator.ts *)

\* what the paper-trading history of each strategy id evaluates to; a strategy
\* without PnL points evaluates to score 0, 0 days, drawdown 0
evaluatePaperPerformance(paper, strategyId) ==
    IF ~paper[strategyId].hasData
    THEN [score |-> 0, daysTested |-> 0, maxDrawdown |-> 0]
    ELSE [score |-> paper[strategyId].score,
          daysTested |-> paper[strategyId].daysTested,
          maxDrawdown |-> paper[strategyId].maxDrawdown]

\* JS `a < obj.k` and `a > obj.k`: false when obj has no property k
\* (comparison with undefined)
LtField(a, obj, k) == k \in DOMAIN obj /\ a < obj[k]
GtField(a, obj, k) == k \in DOMAIN obj /\ a > obj[k]

\* mutant: the paper-days threshold is not checked
MeetsCriteriaWithoutDays(backtestScore, paperScore, paperDaysTested, paperMaxDrawdown, criteria) ==
    LET reasons ==
            (IF LtField(backtestScore, criteria, "minBacktestScore")
             THEN <<"backtest">> ELSE <<>>)
         \o (IF LtField(paperScore, criteria, "minPaperScore")
             THEN <<"score">> ELSE <<>>)
         \o (IF GtField(paperMaxDrawdown, criteria, "maxPaperDrawdown")
             THEN <<"drawdown">> ELSE <<>>)
    IN [eligible |-> Len(reasons) = 0, reasons |-> reasons]

meetsPromotionCriteria(backtestScore, paperScore, paperDaysTested, paperMaxDrawdown, criteria) ==
    LET reasons ==
            (IF LtField(backtestScore, criteria, "minBacktestScore")
             THEN <<"backtest">> ELSE <<>>)
         \o (IF LtField(paperDaysTested, criteria, "minPaperDays")
             THEN <<"days">> ELSE <<>>)
         \o (IF LtField(paperScore, criteria, "minPaperScore")
             THEN <<"score">> ELSE <<>>)
         \o (IF GtField(paperMaxDrawdown, criteria, "maxPaperDrawdown")
             THEN <<"drawdown">> ELSE <<>>)
    IN [eligible |-> Len(reasons) = 0, reasons |-> reasons]

\* select * from strategy_candidates order by created_at desc, each row
\* mapped to a StrategyCandidate; the column strategy_params is written at
\* insertion only, so it is read from CandidateParams
getStrategyCandidates(db) ==
    LET n == Cardinality(DOMAIN db.cand)
        ids == SortSeq([k \in 1..n |-> k],
                       LAMBDA a, b : db.cand[a].createdAt > db.cand[b].createdAt)
    IN [k \in 1..n |->
           [id |-> db.cand[ids[k]].id,
            createdAt |-> db.cand[ids[k]].createdAt,
            strategyParams |-> CandidateParams(db.cand[ids[k]].id),
            backtestScore |-> db.cand[ids[k]].backtestScore,
            paperScore |-> db.cand[ids[k]].paperScore,
            paperDaysTested |-> db.cand[ids[k]].paperDaysTested,
            status |-> db.cand[ids[k]].status,
            promotedAt |-> db.cand[ids[k]].promotedAt]]

\* update ... where id = candidateId (no row matches an unknown id)
updateCandidatePaperResults(db, candidateId, paperScore, paperDaysTested) ==
    IF candidateId \in DOMAIN db.cand
    THEN [db EXCEPT !.cand[candidateId].paperScore = paperScore,
                    !.cand[candidateId].paperDaysTested = paperDaysTested]
    ELSE db

\* mutant: promoted_at is written whatever the new status is
UpdateStatusAlwaysStamped(db, candidateId, status) ==
    IF candidateId \notin DOMAIN db.cand THEN db
    ELSE [db EXCEPT !.cand[candidateId].status = status,
                    !.cand[candidateId].promotedAt = db.clock + 1,
                    !.clock = db.clock + 1]

\* promoted_at is written only with status "promoted"; new Date() reads the
\* clock, which has advanced since the previous promotion
updateCandidateStatus(db, candidateId, status) ==
    IF candidateId \notin DOMAIN db.cand THEN db
    ELSE IF status = "promoted"
    THEN [db EXCEPT !.cand[candidateId].status = status,
                    !.cand[candidateId].promotedAt = db.clock + 1,
                    !.clock = db.clock + 1]
    ELSE [db EXCEPT !.cand[candidateId].status = status]

\* x ?? 0
OrZero(x) == IF x = Null THEN 0 ELSE x

\* (backtestScore ?? 0) * 0.4 + (paperScore ?? 0) * 0.6, times 10
SortScore(c) == OrZero(c.backtestScore) * 4 + OrZero(c.paperScore) * 6

\* Array.prototype.sort with the comparator scoreB - scoreA: stable, so an
\* element is inserted after the elements that do not score less
RECURSIVE InsertByScore(_, _)
InsertByScore(sorted, c) ==
    IF sorted = <<>> THEN <<c>>
    ELSE IF SortScore(Head(sorted)) >= SortScore(c)
         THEN <<Head(sorted)>> \o InsertByScore(Tail(sorted), c)
         ELSE <<c>> \o sorted

RECURSIVE SortByScore(_)
SortByScore(s) ==
    IF s = <<>> THEN <<>>
    ELSE InsertByScore(SortByScore(SubSeq(s, 1, Len(s) - 1)), s[Len(s)])

BestFilter(c) ==
    /\ c.status = "paper_testing"
    /\ c.backtestScore # Null
    /\ c.paperScore # Null
    /\ c.paperDaysTested >= 7

\* mutant: the filtered candidates are not sorted by score
GetFirstSevenDayCandidate(db) ==
    LET eligibleCandidates == SelectSeq(getStrategyCandidates(db), BestFilter)
    IN IF Len(eligibleCandidates) = 0 THEN <<>>
       ELSE <<eligibleCandidates[1]>>

\* the candidate, as a sequence of 0 (null) or 1 element
getBestEligibleCandidate(db) ==
    LET eligibleCandidates == SelectSeq(getStrategyCandidates(db), BestFilter)
    IN IF Len(eligibleCandidates) = 0 THEN <<>>
       ELSE <<SortByScore(eligibleCandidates)[1]>>

----------------------------------------------------------------------------
(* promoter.ts *)

\* the PromotionResult of a call; candidateId 0 and Null scores stand for
\* the omitted properties
Result(promoted, candidateId, reason, reasons, backtestScore, paperScore, paperDaysTested) ==
    [promoted |-> promoted, candidateId |-> candidateId, reason |-> reason,
     reasons |-> reasons, backtestScore |-> backtestScore,
     paperScore |-> paperScore, paperDaysTested |-> paperDaysTested]

\* the tunable fields a promotion takes from the candidate
PromotedFields(candidate) ==
    [maxTradePercent |-> candidate.strategyParams.maxTradePercent,
     stopLossPercent |-> candidate.strategyParams.stopLossPercent,
     cooldownMinutes |-> candidate.strategyParams.cooldownMinutes,
     baseWeights |-> candidate.strategyParams.baseWeights]

\* mutant: the promoted fields are laid over the store's default configuration
UpdatedConfigFromDefault(currentConfig, candidate) ==
    Spread(DEFAULT_CONFIG, PromotedFields(candidate))

\* { ...currentConfig, maxTradePercent: ..., ... }
UpdatedConfig(currentConfig, candidate) ==
    Spread(currentConfig, PromotedFields(candidate))

promoteStrategy(db, candidate) ==
    LET currentConfig == getConfig(db.configRow)
        db1 == setConfig(db, UpdatedConfig(currentConfig, candidate))
    IN updateCandidateStatus(db1, candidate.id, "promoted")

PaperTestingFilter(c) == c.status = "paper_testing" /\ c.backtestScore # Null

\* mutant: the loop does not return after a promotion
RECURSIVE CheckLoopWithoutReturn(_, _, _, _, _, _)
CheckLoopWithoutReturn(eligibleCandidates, k, db, paper, criteria, evaluated) ==
    IF k > Len(eligibleCandidates)
    THEN [db |-> db, evaluated |-> evaluated, found |-> FALSE,
          result |-> Result(FALSE, 0, "", <<>>, Null, Null, 0)]
    ELSE
      LET candidate == eligibleCandidates[k]
          paperPerformance == evaluatePaperPerformance(paper, candidate.id)
          db1 == updateCandidatePaperResults(db, candidate.id,
                     paperPerformance.score, paperPerformance.daysTested)
          eligibility == meetsPromotionCriteria(OrZero(candidate.backtestScore),
                     paperPerformance.score, paperPerformance.daysTested,
                     paperPerformance.maxDrawdown, criteria)
          rest == CheckLoopWithoutReturn(eligibleCandidates, k + 1,
                     IF eligibility.eligible THEN promoteStrategy(db1, candidate) ELSE db1,
                     paper, criteria,
                     Append(evaluated, [id |-> candidate.id, eligible |-> eligibility.eligible]))
      IN IF eligibility.eligible
         THEN [db |-> rest.db, evaluated |-> Append(evaluated, [id |-> candidate.id, eligible |-> TRUE]),
               found |-> TRUE,
               result |-> Result(TRUE, candidate.id, "met_all_criteria", <<>>,
                                 candidate.backtestScore, paperPerformance.score,
                                 paperPerformance.daysTested)]
         ELSE rest

\* the paper results of the candidates from index k on, persisted
RECURSIVE PersistFrom(_, _, _, _)
PersistFrom(eligibleCandidates, k, db, paper) ==
    IF k > Len(eligibleCandidates) THEN db
    ELSE LET perf == evaluatePaperPerformance(paper, eligibleCandidates[k].id)
         IN PersistFrom(eligibleCandidates, k + 1,
                updateCandidatePaperResults(db, eligibleCandidates[k].id,
                                            perf.score, perf.daysTested),
                paper)

\* mutant: the paper results of the candidates after the promoted one are
\* evaluated and persisted too
RECURSIVE CheckLoopPersistingAll(_, _, _, _, _, _)
CheckLoopPersistingAll(eligibleCandidates, k, db, paper, criteria, evaluated) ==
    IF k > Len(eligibleCandidates)
    THEN [db |-> db, evaluated |-> evaluated, found |-> FALSE,
          result |-> Result(FALSE, 0, "", <<>>, Null, Null, 0)]
    ELSE
      LET candidate == eligibleCandidates[k]
          paperPerformance == evaluatePaperPerformance(paper, candidate.id)
          db1 == updateCandidatePaperResults(db, candidate.id,
                     paperPerformance.score, paperPerformance.daysTested)
          eligibility == meetsPromotionCriteria(OrZero(candidate.backtestScore),
                     paperPerformance.score, paperPerformance.daysTested,
                     paperPerformance.maxDrawdown, criteria)
      IN IF eligibility.eligible
         THEN [db |-> promoteStrategy(
                          PersistFrom(eligibleCandidates, k + 1, db1, paper),
                          candidate),
               evaluated |-> Append(evaluated, [id |-> candidate.id, eligible |-> TRUE]),
               found |-> TRUE,
               result |-> Result(TRUE, candidate.id, "met_all_criteria", <<>>,
                                 candidate.backtestScore, paperPerformance.score,
                                 paperPerformance.daysTested)]
         ELSE CheckLoopPersistingAll(eligibleCandidates, k + 1, db1, paper,
                  criteria, Append(evaluated, [id |-> candidate.id, eligible |-> FALSE]))

\* the for loop of checkAndPromote from index k on; evaluated lists, in order,
\* the ids whose paper performance was evaluated and persisted so far, each
\* with the verdict of meetsPromotionCriteria
RECURSIVE CheckLoop(_, _, _, _, _, _)
CheckLoop(eligibleCandidates, k, db, paper, criteria, evaluated) ==
    IF k > Len(eligibleCandidates)
    THEN [db |-> db, evaluated |-> evaluated, found |-> FALSE,
          result |-> Result(FALSE, 0, "", <<>>, Null, Null, 0)]
    ELSE
      LET candidate == eligibleCandidates[k]
          paperPerformance == evaluatePaperPerformance(paper, candidate.id)
          db1 == updateCandidatePaperResults(db, candidate.id,
                     paperPerformance.score, paperPerformance.daysTested)
          eligibility == meetsPromotionCriteria(OrZero(candidate.backtestScore),
                     paperPerformance.score, paperPerformance.daysTested,
                     paperPerformance.maxDrawdown, criteria)
      IN IF eligibility.eligible
         THEN [db |-> promoteStrategy(db1, candidate),
               evaluated |-> Append(evaluated, [id |-> candidate.id, eligible |-> TRUE]),
               found |-> TRUE,
               result |-> Result(TRUE, candidate.id, "met_all_criteria", <<>>,
                                 candidate.backtestScore, paperPerformance.score,
                                 paperPerformance.daysTested)]
         ELSE CheckLoop(eligibleCandidates, k + 1, db1, paper, criteria,
                        Append(evaluated, [id |-> candidate.id, eligible |-> FALSE]))

\* the tail of checkAndPromote after a loop that promoted nothing
ReportBest(db, paper, criteria) ==
    LET best == getBestEligibleCandidate(db)
    IN IF best # <<>>
       THEN LET paperPerformance == evaluatePaperPerformance(paper, best[1].id)
                eligibility == meetsPromotionCriteria(OrZero(best[1].backtestScore),
                     paperPerformance.score, paperPerformance.daysTested,
                     paperPerformance.maxDrawdown, criteria)
            IN Result(FALSE, best[1].id, "best_not_yet_eligible",
                      eligibility.reasons, best[1].backtestScore,
                      paperPerformance.score, paperPerformance.daysTested)
       ELSE Result(FALSE, 0, "no_eligible_candidates", <<>>, Null, Null, 0)

checkAndPromote(db, criteria, paper) ==
    LET candidates == getStrategyCandidates(db)
        eligibleCandidates == SelectSeq(candidates, PaperTestingFilter)
    IN IF Len(eligibleCandidates) = 0
       THEN [db |-> db, evaluated |-> <<>>,
             result |-> Result(FALSE, 0, "no_candidates_in_paper_testing",
                               <<>>, Null, Null, 0)]
       ELSE LET loop == CheckLoop(eligibleCandidates, 1, db, paper, criteria, <<>>)
            IN IF loop.found
               THEN [db |-> loop.db, evaluated |-> loop.evaluated,
                     result |-> loop.result]
               ELSE [db |-> loop.db, evaluated |-> loop.evaluated,
                     result |-> ReportBest(loop.db, paper, criteria)]

\* candidates.find((c) => c.id === candidateId), as a sequence of 0 or 1
FindCandidate(candidates, candidateId) ==
    SelectSeq(candidates, LAMBDA c : c.id = candidateId)

\* mutant: a candidate that is already promoted is promoted again
ManualPromoteAgain(db, candidateId) ==
    LET found == FindCandidate(getStrategyCandidates(db), candidateId)
    IN IF found = <<>>
       THEN [db |-> db,
             result |-> Result(FALSE, 0, "not_found", <<>>, Null, Null, 0)]
       ELSE [db |-> promoteStrategy(db, found[1]),
             result |-> Result(TRUE, candidateId, "manually_promoted", <<>>,
                               found[1].backtestScore, found[1].paperScore,
                               found[1].paperDaysTested)]

manualPromote(db, candidateId) ==
    LET found == FindCandidate(getStrategyCandidates(db), candidateId)
    IN IF found = <<>>
       THEN [db |-> db,
             result |-> Result(FALSE, 0, "not_found", <<>>, Null, Null, 0)]
       ELSE IF found[1].status = "promoted"
       THEN [db |-> db,
             result |-> Result(FALSE, candidateId, "already_promoted", <<>>,
                               Null, Null, 0)]
       ELSE [db |-> promoteStrategy(db, found[1]),
             result |-> Result(TRUE, candidateId, "manually_promoted", <<>>,
                               found[1].backtestScore, found[1].paperScore,
                               found[1].paperDaysTested)]

rejectCandidate(db, candidateId) ==
    updateCandidateStatus(db, candidateId, "rejected")

\* the configuration rollbackConfig writes
RollbackDefaultConfig ==
    [enabled |-> TRUE,
     pairs |-> <<"BTC-EUR", "ETH-EUR", "SOL-EUR">>,
     baseWeights |-> EqualWeights,
     maxTradePercent |-> 20,
     minTradeSizeEur |-> 5,
     cooldownMinutes |-> 30,
     stopLossPercent |-> 5,
     maxDrawdownPercent |-> 10,
     aiEnabled |-> TRUE]

\* mutant: the default is laid under the current configuration
RollbackUnderCurrentConfig(db) ==
    setConfig(db, Spread(RollbackDefaultConfig, getConfig(db.configRow)))

rollbackConfig(db) == setConfig(db, RollbackDefaultConfig)

\* POST /api/trading/config: { ...current, ...body }
ConfigPostHandler(db, body) ==
    LET current == getConfig(db.configRow)
    IN setConfig(db, Spread(current, body))

----------------------------------------------------------------------------
(* Inputs *)

\* backtest scores of the strategy_candidates rows (the column is nullable):
\* in one table every row has a score, in the other every second row has none
BacktestScoreTables ==
    {[i \in Ids |-> IF i % 2 = 1 THEN 70 ELSE 50],
     [i \in Ids |-> IF i % 2 = 1 THEN 70 ELSE Null]}

NoData == [hasData |-> FALSE, score |-> 0, daysTested |-> 0, maxDrawdown |-> 0]

\* what a strategy's paper history may evaluate to: good on every default
\* threshold, one day short, score too low, drawdown too high, no history
PaperSummaries ==
    {[hasData |-> TRUE, score |-> 60, daysTested |-> 7, maxDrawdown |-> 8],
     [hasData |-> TRUE, score |-> 60, daysTested |-> 6, maxDrawdown |-> 8],
     [hasData |-> TRUE, score |-> 50, daysTested |-> 7, maxDrawdown |-> 8],
     [hasData |-> TRUE, score |-> 60, daysTested |-> 7, maxDrawdown |-> 9],
     NoData}

\* the paper histories that differ for a call in the database db: only the
\* history of a candidate the call evaluates is read
PaperInputs(db) ==
    {paper \in [Ids -> PaperSummaries] :
        \A i \in Ids : ~PaperTestingFilter(db.cand[i]) => paper[i] = NoData}

\* a complete criteria object other than the default one
CustomCriteria ==
    [minBacktestScore |-> 50, minPaperDays |-> 6, minPaperScore |-> 50,
     maxPaperDrawdown |-> 9]

\* body.criteria of a request that overrides one threshold only
PartialCriteria == [k \in {"minPaperDays"} |-> 6]

\* the criteria checkAndPromote is called with: the default parameter value
\* (body.criteria undefined, or the cron route), or body.criteria as sent
CriteriaArgs == {DEFAULT_PROMOTION_CRITERIA, CustomCriteria, PartialCriteria}

\* bodies of POST /api/trading/config (Partial<TradingConfig>)
ConfigBodies == {[aiEnabled |-> FALSE, cooldownMinutes |-> 60]}

----------------------------------------------------------------------------
(* Sequential specification: each handler runs to completion *)

Procs == 1..NumProcs

\* a request slot nothing has arrived on
IdleProc ==
    [op |-> "idle", pc |-> "idle", id |-> 0, body |-> <<>>, current |-> <<>>,
     candidate |-> <<>>, writes |-> 0]

NoPerf == [score |-> 0, daysTested |-> 0, maxDrawdown |-> 0]

\* what is recorded of a call: the handler, its arguments (candidate id,
\* criteria), the status the candidate named by id had when the call began,
\* its PromotionResult (promoted, candidateId), the candidates it evaluated
\* in order, its number of setConfig calls, and the paper performance it
\* computed for the candidate it promoted
Call(op, id, criteria, before, promoted, candidateId, evaluated, writes, perf) ==
    [op |-> op, id |-> id, criteria |-> criteria, before |-> before,
     promoted |-> promoted, candidateId |-> candidateId,
     evaluated |-> evaluated, writes |-> writes, perf |-> perf]

StatusOf(db, candidateId) ==
    IF candidateId \in DOMAIN db.cand THEN db.cand[candidateId].status ELSE "none"

InitialCandidates ==
    {[i \in Ids |-> [id |-> i, createdAt |-> i,
                     backtestScore |-> scores[i],
                     paperScore |-> Null, paperDaysTested |-> 0,
                     status |-> "paper_testing", promotedAt |-> Null]] :
        scores \in BacktestScoreTables}

Init ==
    /\ cand \in InitialCandidates
    /\ configRow = <<>>
    /\ clock = 0
    /\ last = Call("none", 0, <<>>, "none", FALSE, 0, <<>>, 0, NoPerf)
    /\ pcs = [p \in Procs |-> IdleProc]
    /\ startDb = <<>>
    /\ simConfig = <<>>
    /\ simA = <<>>
    /\ simB = <<>>
    /\ fed = <<>>
    /\ replayed = 0
    /\ pausedAt = {}
    /\ paperPortfolio = <<>>
    /\ livePortfolio = <<>>
    /\ ticked = "none"
    /\ tickDb = NoTicks
    /\ historical = <<>>
    /\ timeline = <<>>
    /\ cursor = 0
    /\ handed = <<>>
    /\ run = <<>>
    /\ opt = <<>>
    /\ fnArgs = <<>>
    /\ fnResult = <<>>

\* the database as a handler finds it
Db == [cand |-> cand, configRow |-> configRow, clock |-> clock, writes |-> 0]

\* the database as a handler leaves it; a call that reads the clock starts
\* only while the clock is below MaxClock
Commit(db) ==
    /\ db.clock = clock \/ clock < MaxClock
    /\ cand' = db.cand
    /\ configRow' = db.configRow
    /\ clock' = db.clock

CheckAndPromote ==
    \E criteria \in CriteriaArgs, paper \in PaperInputs(Db) :
        LET out == checkAndPromote(Db, criteria, paper)
        IN /\ Commit(out.db)
           /\ last' = Call("checkAndPromote", 0, criteria, "none", out.result.promoted,
                           out.result.candidateId, out.evaluated, out.db.writes,
                           IF out.result.promoted
                           THEN evaluatePaperPerformance(paper, out.result.candidateId)
                           ELSE NoPerf)
           /\ UNCHANGED <<pcs, startDb, simVars, tickVars, btVars, optVars, fnVars>>

ManualPromote ==
    \E candidateId \in ArgIds :
        LET out == manualPromote(Db, candidateId)
        IN /\ Commit(out.db)
           /\ last' = Call("manualPromote", candidateId, <<>>,
                           StatusOf(Db, candidateId), out.result.promoted,
                           out.result.candidateId, <<>>, out.db.writes, NoPerf)
           /\ UNCHANGED <<pcs, startDb, simVars, tickVars, btVars, optVars, fnVars>>

RejectCandidate ==
    \E candidateId \in ArgIds :
        LET db == rejectCandidate(Db, candidateId)
        IN /\ Commit(db)
           /\ last' = Call("rejectCandidate", candidateId, <<>>,
                           StatusOf(Db, candidateId), FALSE, 0, <<>>,
                           db.writes, NoPerf)
           /\ UNCHANGED <<pcs, startDb, simVars, tickVars, btVars, optVars, fnVars>>

RollbackConfig ==
    LET db == rollbackConfig(Db)
    IN /\ Commit(db)
       /\ last' = Call("rollbackConfig", 0, <<>>, "none", FALSE, 0, <<>>, db.writes, NoPerf)
       /\ UNCHANGED <<pcs, startDb, simVars, tickVars, btVars, optVars, fnVars>>

ConfigPost ==
    \E body \in ConfigBodies :
        LET db == ConfigPostHandler(Db, body)
        IN /\ Commit(db)
           /\ last' = Call("configPost", 0, <<>>, "none", FALSE, 0, <<>>, db.writes, NoPerf)
           /\ UNCHANGED <<pcs, startDb, simVars, tickVars, btVars, optVars, fnVars>>

Next ==
    \/ CheckAndPromote
    \/ ManualPromote
    \/ RejectCandidate
    \/ RollbackConfig
    \/ ConfigPost

Spec == Init /\ [][Next]_vars

----------------------------------------------------------------------------
(* Concurrent specification: the requests that write the live configuration *)
(* (manual promotion, configuration update, rollback) run one per request   *)
(* slot and interleave at their awaits, one database call per step          *)

InitConc ==
    /\ cand \in InitialCandidates
    /\ configRow = <<>>
    /\ clock = 0
    /\ last = Call("none", 0, <<>>, "none", FALSE, 0, <<>>, 0, NoPerf)
    /\ pcs = [p \in Procs |-> IdleProc]
    /\ startDb = [cand |-> cand, configRow |-> <<>>, clock |-> 0, writes |-> 0]
    /\ simConfig = <<>>
    /\ simA = <<>>
    /\ simB = <<>>
    /\ fed = <<>>
    /\ replayed = 0
    /\ pausedAt = {}
    /\ paperPortfolio = <<>>
    /\ livePortfolio = <<>>
    /\ ticked = "none"
    /\ tickDb = NoTicks
    /\ historical = <<>>
    /\ timeline = <<>>
    /\ cursor = 0
    /\ handed = <<>>
    /\ run = <<>>
    /\ opt = <<>>
    /\ fnArgs = <<>>
    /\ fnResult = <<>>

\* manualPromote up to its first await: the candidates are read, the one with
\* the id is looked up, and the call returns if it is missing or promoted
MpReadCandidates(p) ==
    /\ pcs[p].pc = "idle"
    /\ \E candidateId \in ArgIds :
          LET found == FindCandidate(getStrategyCandidates(Db), candidateId)
              goes == found # <<>> /\ found[1].status # "promoted"
          IN pcs' = [pcs EXCEPT ![p] = [@ EXCEPT !.op = "manualPromote",
                                        !.id = candidateId,
                                        !.candidate = IF goes THEN found ELSE <<>>,
                                        !.pc = IF goes THEN "getConfig" ELSE "done"]]
    /\ UNCHANGED <<cand, configRow, clock, last, startDb, simVars, tickVars, btVars, optVars, fnVars>>

\* promoteStrategy: await getConfig()
PsGetConfig(p) ==
    /\ pcs[p].pc = "getConfig"
    /\ pcs' = [pcs EXCEPT ![p].current = <<getConfig(configRow)>>,
                          ![p].pc = "setConfig"]
    /\ UNCHANGED <<cand, configRow, clock, last, startDb, simVars, tickVars, btVars, optVars, fnVars>>

\* promoteStrategy: await setConfig(updatedConfig)
PsSetConfig(p) ==
    /\ pcs[p].pc = "setConfig"
    /\ configRow' = setConfig(Db, UpdatedConfig(pcs[p].current[1], pcs[p].candidate[1])).configRow
    /\ pcs' = [pcs EXCEPT ![p].writes = @ + 1, ![p].pc = "updateStatus"]
    /\ UNCHANGED <<cand, clock, last, startDb, simVars, tickVars, btVars, optVars, fnVars>>

\* promoteStrategy: await updateCandidateStatus(candidate.id, "promoted")
PsUpdateStatus(p) ==
    /\ pcs[p].pc = "updateStatus"
    /\ LET db == updateCandidateStatus(Db, pcs[p].candidate[1].id, "promoted")
       IN cand' = db.cand /\ clock' = db.clock
    /\ pcs' = [pcs EXCEPT ![p].pc = "done"]
    /\ UNCHANGED <<configRow, last, startDb, simVars, tickVars, btVars, optVars, fnVars>>

\* POST /api/trading/config: await getConfig()
CpGetConfig(p) ==
    /\ pcs[p].pc = "idle"
    /\ \E body \in ConfigBodies :
          pcs' = [pcs EXCEPT ![p] = [@ EXCEPT !.op = "configPost", !.body = body,
                                     !.current = <<getConfig(configRow)>>,
                                     !.pc = "postSetConfig"]]
    /\ UNCHANGED <<cand, configRow, clock, last, startDb, simVars, tickVars, btVars, optVars, fnVars>>

\* POST /api/trading/config: await setConfig({ ...current, ...body })
CpSetConfig(p) ==
    /\ pcs[p].pc = "postSetConfig"
    /\ configRow' = setConfig(Db, Spread(pcs[p].current[1], pcs[p].body)).configRow
    /\ pcs' = [pcs EXCEPT ![p].writes = @ + 1, ![p].pc = "done"]
    /\ UNCHANGED <<cand, clock, last, startDb, simVars, tickVars, btVars, optVars, fnVars>>

\* rollbackConfig: its one await is setConfig(defaultConfig)
RbSetConfig(p) ==
    /\ pcs[p].pc = "idle"
    /\ configRow' = rollbackConfig(Db).configRow
    /\ pcs' = [pcs EXCEPT ![p] = [@ EXCEPT !.op = "rollbackConfig",
                                  !.writes = @ + 1, !.pc = "done"]]
    /\ UNCHANGED <<cand, clock, last, startDb, simVars, tickVars, btVars, optVars, fnVars>>

NextConc ==
    \E p \in Procs :
        \/ MpReadCandidates(p)
        \/ PsGetConfig(p)
        \/ PsSetConfig(p)
        \/ PsUpdateStatus(p)
        \/ CpGetConfig(p)
        \/ CpSetConfig(p)
        \/ RbSetConfig(p)

SpecConc == InitConc /\ [][NextConc]_vars

\* the request of slot p, run to completion on db
RunAlone(db, p) ==
    IF pcs[p].op = "manualPromote" THEN manualPromote(db, pcs[p].id).db
    ELSE IF pcs[p].op = "configPost" THEN ConfigPostHandler(db, pcs[p].body)
    ELSE IF pcs[p].op = "rollbackConfig" THEN rollbackConfig(db)
    ELSE db

\* the requests of the slots order[k], order[k + 1], ... run one after another
RECURSIVE RunSerially(_, _, _)
RunSerially(db, order, k) ==
    IF k > Len(order) THEN db
    ELSE RunSerially(RunAlone(db, order[k]), order, k + 1)

SerialOrders ==
    {order \in [1..NumProcs -> Procs] :
        \A a, b \in 1..NumProcs : a # b => order[a] # order[b]}

AllDone == \A p \in Procs : pcs[p].pc = "done"

----------------------------------------------------------------------------
(* Claims about the promotion state machine, under Spec *)

\* the candidates whose promoted_at a step writes
PromotedInStep == {i \in Ids : cand'[i].promotedAt # cand[i].promotedAt}

\* C1: once a candidate's status is promoted or rejected it never changes
\* again, whatever handler runs.
C1_StatusIsTerminal ==
    [][\A i \in Ids :
          cand[i].status # "paper_testing" => cand'[i].status = cand[i].status]_vars

\* C2: a call of checkAndPromote moves at most one candidate to promoted and
\* calls setConfig at most once (exactly once each when it reports promoted).
C2_AtMostOnePromotionPerCall ==
    [][last'.op = "checkAndPromote" =>
          /\ Cardinality(PromotedInStep) <= 1
          /\ last'.writes <= 1
          /\ last'.promoted =>
                /\ PromotedInStep = {last'.candidateId}
                /\ last'.writes = 1]_vars

\* C2 witness: checkAndPromote promoted a candidate while another candidate
\* with a backtest score was still in paper testing behind it.
C2_Witness ==
    /\ last.op = "checkAndPromote"
    /\ last.promoted
    /\ \E i \in Ids : /\ i # last.candidateId
                      /\ PaperTestingFilter(cand[i])

\* C3: a candidate promoted by checkAndPromote meets every threshold of the
\* criteria object of that call: its backtest score, and the paper days,
\* paper score and paper drawdown evaluated in that call (which are the paper
\* days and score the call persisted).
C3_PromotedMeetsCriteria ==
    (last.op = "checkAndPromote" /\ last.promoted) =>
        LET c == cand[last.candidateId]
            criteria == last.criteria
        IN /\ c.status = "promoted"
           /\ c.paperDaysTested = last.perf.daysTested
           /\ c.paperScore = last.perf.score
           /\ "minBacktestScore" \in DOMAIN criteria =>
                 c.backtestScore >= criteria.minBacktestScore
           /\ "minPaperDays" \in DOMAIN criteria =>
                 last.perf.daysTested >= criteria.minPaperDays
           /\ "minPaperScore" \in DOMAIN criteria =>
                 last.perf.score >= criteria.minPaperScore
           /\ "maxPaperDrawdown" \in DOMAIN criteria =>
                 last.perf.maxDrawdown <= criteria.maxPaperDrawdown

\* C3 witness: a promotion under a complete criteria object that is not the
\* default one, of a candidate the default criteria would have refused.
C3_Witness ==
    /\ last.op = "checkAndPromote"
    /\ last.promoted
    /\ last.criteria = CustomCriteria
    /\ last.perf.daysTested < DEFAULT_PROMOTION_CRITERIA.minPaperDays

\* the threshold in force: the one of the criteria object, else the default
Threshold(criteria, k) ==
    IF k \in DOMAIN criteria THEN criteria[k] ELSE DEFAULT_PROMOTION_CRITERIA[k]

\* C4: a candidate promoted by checkAndPromote meets every threshold in
\* force, where a threshold the criteria object omits is the default one.
C4_OmittedThresholdDefaults ==
    (last.op = "checkAndPromote" /\ last.promoted) =>
        LET c == cand[last.candidateId]
            criteria == last.criteria
        IN /\ c.backtestScore >= Threshold(criteria, "minBacktestScore")
           /\ last.perf.daysTested >= Threshold(criteria, "minPaperDays")
           /\ last.perf.score >= Threshold(criteria, "minPaperScore")
           /\ last.perf.maxDrawdown <= Threshold(criteria, "maxPaperDrawdown")

\* the candidates a call of checkAndPromote works through, in the order the
\* store returns them, as the call finds them
WorkList == SelectSeq(getStrategyCandidates(Db), PaperTestingFilter)

TunableFields == {"maxTradePercent", "stopLossPercent", "cooldownMinutes", "baseWeights"}

\* C6: a promotion sets the four tunable fields of the live configuration
\* to the candidate's parameters and keeps every other field as getConfig
\* returned it before.
C6_PromotionWritesTunableFieldsOnly ==
    [][(last'.op \in {"checkAndPromote", "manualPromote"} /\ last'.promoted) =>
          LET before == getConfig(configRow)
              after == getConfig(configRow')
              params == CandidateParams(last'.candidateId)
          IN /\ configRow' # <<>>
             /\ DOMAIN after = DOMAIN before
             /\ \A k \in TunableFields : after[k] = params[k]
             /\ \A k \in (DOMAIN before) \ TunableFields : after[k] = before[k]]_vars

\* C6 witness: a promotion into a configuration whose other fields are not
\* the defaults of the store, and whose tunable fields were the candidate's
\* parameters neither before nor by default.
C6_Witness ==
    /\ last.op \in {"checkAndPromote", "manualPromote"}
    /\ last.promoted
    /\ getConfig(configRow).aiEnabled = FALSE
    /\ getConfig(configRow).enabled = TRUE
    /\ getConfig(configRow).cooldownMinutes = CandidateParams(last.candidateId).cooldownMinutes

\* the paper-testing candidates with at least 7 persisted paper days
SevenDayCandidates(rows) ==
    {i \in Ids : rows[i].status = "paper_testing" /\ rows[i].paperDaysTested >= 7}

\* 0.4 * backtestScore + 0.6 * paperScore, times 10 (a missing score is 0)
WeightedScore(row) ==
    4 * (IF row.backtestScore = Null THEN 0 ELSE row.backtestScore)
      + 6 * (IF row.paperScore = Null THEN 0 ELSE row.paperScore)

\* C8: a call of checkAndPromote that promotes nothing never calls setConfig
\* and leaves the configuration row and every candidate's status and
\* promotedAt as they were; it reports a candidate with the highest weighted
\* score among the paper-testing candidates with at least 7 paper days, and
\* no candidate when there is none.
C8_NoPromotionLeavesStateAndReportsBest ==
    [][(last'.op = "checkAndPromote" /\ ~last'.promoted) =>
          /\ configRow' = configRow
          /\ last'.writes = 0
          /\ \A i \in Ids : /\ cand'[i].status = cand[i].status
                            /\ cand'[i].promotedAt = cand[i].promotedAt
          /\ IF SevenDayCandidates(cand') = {}
             THEN last'.candidateId = 0
             ELSE /\ last'.candidateId \in SevenDayCandidates(cand')
                  /\ \A j \in SevenDayCandidates(cand') :
                        WeightedScore(cand'[last'.candidateId]) >= WeightedScore(cand'[j])]_vars

\* C8 witness: no candidate was eligible, two had 7 paper days, and the one
\* reported is the one the store returns second, with the higher score.
C8_Witness ==
    /\ last.op = "checkAndPromote"
    /\ ~last.promoted
    /\ Len(last.evaluated) = 2
    /\ last.candidateId = last.evaluated[2].id
    /\ last.evaluated[1].id \in SevenDayCandidates(cand)
    /\ WeightedScore(cand[last.candidateId]) > WeightedScore(cand[last.evaluated[1].id])

\* C9: rollbackConfig leaves the configuration row equal to the hardcoded
\* default whatever it was before (so a second call changes nothing), with
\* one setConfig call, and changes no candidate row.
C9_RollbackWritesDefaultOnly ==
    [][last'.op = "rollbackConfig" =>
          /\ configRow' = <<RollbackDefaultConfig>>
          /\ last'.writes = 1
          /\ cand' = cand
          /\ clock' = clock]_vars

\* C9 witness: a rollback of a configuration written by a promotion and a
\* configuration update, with a promoted candidate in the store.
C9_Witness ==
    /\ last.op = "rollbackConfig"
    /\ configRow = <<RollbackDefaultConfig>>
    /\ \E i \in Ids : cand[i].status = "promoted"
    /\ \E i \in Ids : cand[i].status = "rejected"

\* C10: rejectCandidate on a candidate that is already rejected changes no
\* candidate row and not the configuration row.
C10_RejectRejectedChangesNothing ==
    [][(last'.op = "rejectCandidate" /\ last'.before = "rejected") =>
          /\ cand' = cand
          /\ configRow' = configRow
          /\ clock' = clock
          /\ last'.writes = 0]_vars

\* C10 witness: a rejected candidate that had been promoted before (its
\* promotedAt is set) was rejected again.
C10_Witness ==
    /\ last.op = "rejectCandidate"
    /\ last.before = "rejected"
    /\ cand[last.id].status = "rejected"
    /\ cand[last.id].promotedAt # Null

\* C11: manualPromote of a candidate in paper_testing promotes it whatever
\* its scores and paper days are (status promoted, promotedAt stamped, the
\* tunable fields of the configuration set to its parameters, the other
\* candidates untouched); for an unknown id or a promoted candidate it
\* reports promoted = false and changes no candidate row and not the
\* configuration row.
C11_ManualPromoteBypassesCriteria ==
    [][last'.op = "manualPromote" =>
          /\ last'.before = "paper_testing" =>
                /\ last'.promoted
                /\ cand'[last'.id].status = "promoted"
                /\ cand'[last'.id].promotedAt = clock'
                /\ clock' = clock + 1
                /\ cand'[last'.id].backtestScore = cand[last'.id].backtestScore
                /\ cand'[last'.id].paperScore = cand[last'.id].paperScore
                /\ cand'[last'.id].paperDaysTested = cand[last'.id].paperDaysTested
                /\ \A i \in Ids \ {last'.id} : cand'[i] = cand[i]
                /\ configRow' # <<>>
                /\ \A k \in TunableFields :
                      configRow'[1][k] = CandidateParams(last'.id)[k]
          /\ last'.before \in {"none", "promoted"} =>
                /\ ~last'.promoted
                /\ last'.writes = 0
                /\ cand' = cand
                /\ configRow' = configRow
                /\ clock' = clock]_vars

\* C11 witness: a manual promotion of a candidate without backtest score and
\* without paper results, which no criteria object would let through.
C11_Witness ==
    /\ last.op = "manualPromote"
    /\ last.before = "paper_testing"
    /\ last.promoted
    /\ cand[last.id].backtestScore = Null
    /\ cand[last.id].paperScore = Null
    /\ cand[last.id].paperDaysTested = 0
    /\ cand[last.id].status = "promoted"

----------------------------------------------------------------------------
(* Claims about concurrent writers of the live configuration, under SpecConc *)

\* C7: each promotion writes the configuration once, and when all requests
\* have returned the configuration row is the one some serial order of the
\* same requests leaves.
C7_ConfigWritesAreSerializable ==
    /\ \A p \in Procs :
          (pcs[p].op = "manualPromote" /\ pcs[p].pc = "done" /\ pcs[p].candidate # <<>>)
              => pcs[p].writes = 1
    /\ (AllDone /\ \E p \in Procs : pcs[p].op = "manualPromote" /\ pcs[p].writes = 1) =>
          \E order \in SerialOrders :
              RunSerially(startDb, order, 1).configRow = configRow

----------------------------------------------------------------------------
(* Part 2: the trade simulator (src/lib/backtesting/simulator.ts), the      *)
(* portfolio arithmetic (lib/portfolio) and the indicators (lib/indicators) *)
(*                                                                          *)
(* Units: amounts of money are in tenths of a euro (1000 EUR is 10000),     *)
(* prices in tenths of a euro per coin, coin balances in 1/10000 coin,      *)
(* weights and fractions in basis points (0.333 is 3330), RSI in hundredths *)
(* of a point, timestamps in seconds and Date values in milliseconds.       *)
(* The code computes in floating point; here every quotient is truncated    *)
(* to the unit.                                                             *)

Abs(x) == IF x < 0 THEN -x ELSE x
Min(a, b) == IF a <= b THEN a ELSE b
Max(a, b) == IF a >= b THEN a ELSE b

\* a / b truncated toward zero (b > 0)
Quot(a, b) == IF a >= 0 THEN a \div b ELSE -((-a) \div b)

RECURSIVE SumSeq(_)
SumSeq(s) == IF s = <<>> THEN 0 ELSE Head(s) + SumSeq(Tail(s))

\* 1.0 as a weight, and one coin as a balance
One == 10000

DEFAULT_PAIRS == <<"BTC-EUR", "ETH-EUR", "SOL-EUR">>

COIN_FOR_PAIR == [pair \in {"BTC-EUR", "ETH-EUR", "SOL-EUR"} |->
                     IF pair = "BTC-EUR" THEN "BTC"
                     ELSE IF pair = "ETH-EUR" THEN "ETH" ELSE "SOL"]

\* balances[coin] * price, in money
CoinValue(balances, pair, price) ==
    IF pair \in DOMAIN COIN_FOR_PAIR
    THEN Quot(balances[COIN_FOR_PAIR[pair]] * price, One)
    ELSE 0

\* portfolio: EUR plus the value of every coin whose pair has a price
RECURSIVE CoinValues(_, _, _)
CoinValues(balances, prices, pairsLeft) ==
    IF pairsLeft = {} THEN 0
    ELSE LET pair == CHOOSE x \in pairsLeft : TRUE
         IN CoinValue(balances, pair, prices[pair])
              + CoinValues(balances, prices, pairsLeft \ {pair})

computePortfolioValue(balances, prices) ==
    balances["EUR"] + CoinValues(balances, prices, DOMAIN prices)

\* portfolio: the empty mapping when the portfolio is worth nothing
computeCurrentWeights(balances, prices) ==
    LET totalValue == computePortfolioValue(balances, prices)
    IN IF totalValue <= 0 THEN <<>>
       ELSE [pair \in (DOMAIN prices) \cap (DOMAIN COIN_FOR_PAIR) |->
                Quot(CoinValue(balances, pair, prices[pair]) * One, totalValue)]

\* obj[k] ?? 0 for a mapping
AtOrZero(obj, k) == IF k \in DOMAIN obj THEN obj[k] ELSE 0

\* portfolio: the orders of one rebalance, in the key order of targetWeights
\* (keys is that order; maxTradePercent is in percent)
RECURSIVE RebalanceFrom(_, _, _, _, _, _, _)
RebalanceFrom(keys, k, currentWeights, targetWeights, totalValue, minTradeSize, maxTradePercent) ==
    IF k > Len(keys) THEN <<>>
    ELSE LET pair == keys[k]
             current == AtOrZero(currentWeights, pair)
             target == AtOrZero(targetWeights, pair)
             deltaEur == Quot((target - current) * totalValue, One)
             maxSize == Quot(totalValue * maxTradePercent, 100)
             rest == RebalanceFrom(keys, k + 1, currentWeights, targetWeights,
                                   totalValue, minTradeSize, maxTradePercent)
         IN IF Abs(deltaEur) < minTradeSize THEN rest
            ELSE <<[pair |-> pair,
                    side |-> IF deltaEur > 0 THEN "BUY" ELSE "SELL",
                    amountEur |-> Min(Abs(deltaEur), maxSize)]>> \o rest

\* mutant: the orders without the cap of maxTradePercent
RebalanceTradesUncapped(keys, currentWeights, targetWeights, totalValue, minTradeSize, maxTradePercent) ==
    RebalanceFrom(keys, 1, currentWeights, targetWeights, totalValue,
                  minTradeSize, 100 * maxTradePercent)

computeRebalanceTrades(keys, currentWeights, targetWeights, totalValue, minTradeSize, maxTradePercent) ==
    RebalanceFrom(keys, 1, currentWeights, targetWeights, totalValue,
                  minTradeSize, maxTradePercent)

\* a Candle: its start (seconds) and its close (parseFloat(c.close))
Candle(start, close) == [start |-> start, close |-> close]

\* indicators: momentum over the first 6 candles of the list (the most
\* recent ones), in hundredths of a percent
calculate4hMomentum(candles) ==
    LET recent == SubSeq(candles, 1, Min(6, Len(candles)))
    IN IF Len(recent) < 2 THEN 0
       ELSE LET lastClose == recent[1].close
                firstClose == recent[Len(recent)].close
            IN IF firstClose = 0 THEN 0
               ELSE Quot((lastClose - firstClose) * 10000, firstClose)

\* the averages of calculateRSI are kept in hundredths of the price unit
RsiPeriod == 14
RsiScale == 100

\* indicators: Wilder's smoothing of the average gain and loss from index j on
RECURSIVE RsiSmooth(_, _, _, _)
RsiSmooth(closes, j, avgGain, avgLoss) ==
    IF j > Len(closes) THEN [avgGain |-> avgGain, avgLoss |-> avgLoss]
    ELSE LET delta == closes[j] - closes[j - 1]
             gain == IF delta > 0 THEN delta ELSE 0
             loss == IF delta < 0 THEN -delta ELSE 0
         IN RsiSmooth(closes, j + 1,
                      Quot(avgGain * (RsiPeriod - 1) + gain * RsiScale, RsiPeriod),
                      Quot(avgLoss * (RsiPeriod - 1) + loss * RsiScale, RsiPeriod))

\* indicators: RSI in hundredths of a point; 50 with fewer than period + 1
\* closes, 100 when there is no loss
calculateRSI(closes) ==
    IF Len(closes) < RsiPeriod + 1 THEN 5000
    ELSE LET deltas == [i \in 1..RsiPeriod |-> closes[i + 1] - closes[i]]
             gains == SumSeq([i \in 1..RsiPeriod |->
                                 IF deltas[i] > 0 THEN deltas[i] ELSE 0])
             losses == SumSeq([i \in 1..RsiPeriod |->
                                  IF deltas[i] > 0 THEN 0 ELSE -deltas[i]])
             avg == RsiSmooth(closes, RsiPeriod + 2,
                              Quot(gains * RsiScale, RsiPeriod),
                              Quot(losses * RsiScale, RsiPeriod))
         IN IF avg.avgLoss = 0 THEN 10000
            ELSE Quot(10000 * avg.avgGain, avg.avgGain + avg.avgLoss)

\* simulator: the raw weight of one pair (base weight, momentum tilt of at
\* most 0.15 either way, RSI adjustment by the thresholds of the strategy)
RawWeight(config, pair, candlesMap) ==
    LET strategyParams == config.strategyParams
        base == IF pair \in DOMAIN strategyParams.baseWeights
                THEN strategyParams.baseWeights[pair]
                ELSE Quot(One, Len(config.pairs))
        candles == IF pair \in DOMAIN candlesMap THEN candlesMap[pair] ELSE <<>>
        momentumTilt == Max(-1500, Min(1500, calculate4hMomentum(candles)))
        tilted == base + momentumTilt
        rsi == calculateRSI([i \in 1..Len(candles) |-> candles[i].close])
        weight == IF rsi > strategyParams.rsiOverboughtThreshold * 100
                  THEN Quot(tilted * 8, 10)
                  ELSE IF rsi < strategyParams.rsiOversoldThreshold * 100
                  THEN Quot(tilted * 12, 10)
                  ELSE tilted
    IN Max(0, weight)

\* simulator: TradeSimulator.calculateTargetWeights
SimTargetWeights(config, prices, candlesMap) ==
    LET pairs == config.pairs
        raw == [k \in 1..Len(pairs) |-> RawWeight(config, pairs[k], candlesMap)]
        total == SumSeq(raw)
    IN [pair \in {pairs[k] : k \in 1..Len(pairs)} |->
           IF total = 0 THEN Quot(One, Len(pairs))
           ELSE LET k == CHOOSE j \in 1..Len(pairs) : pairs[j] = pair
                IN Quot(raw[k] * One, total)]

\* new Date(parseInt(timestamp) * 1000): the Date value, in milliseconds
DateOf(timestamp) == timestamp * 1000

\* simulator: the state a constructor call leaves
NewSimulator(initialCapitalEur) ==
    [balances |-> [c \in {"EUR", "BTC", "ETH", "SOL"} |->
                      IF c = "EUR" THEN initialCapitalEur ELSE 0],
     lastTradeTime |-> Null,
     peakValueEur |-> initialCapitalEur,
     trades |-> <<>>,
     snapshots |-> <<>>]

\* amountEur / effectivePrice in coin units, the price being moved by the
\* slippage of 0.1 % (perMille is 1001 for a buy, 999 for a sale)
CoinsFor(amountEur, price, perMille) ==
    Quot(Quot(amountEur * One, price) * 1000, perMille)

\* a trade stamped with the number of ticks fed so far to any instance, as a
\* simulator reading a shared clock would stamp it
ExecuteTradeStampedByClock(st, timestamp, pair, side, amountEur, price) ==
    IF pair \notin DOMAIN COIN_FOR_PAIR THEN st
    ELSE LET coin == COIN_FOR_PAIR[pair]
             perMille == IF side = "BUY" THEN 1001 ELSE 999
             coins == CoinsFor(amountEur, price, perMille)
             balances ==
                 IF side = "BUY"
                 THEN [st.balances EXCEPT !["EUR"] = @ - amountEur, ![coin] = @ + coins]
                 ELSE [st.balances EXCEPT !["EUR"] = @ + amountEur, ![coin] = @ - coins]
         IN [st EXCEPT !.balances = balances,
                       !.lastTradeTime = DateOf(timestamp),
                       !.trades = Append(@, [timestamp |-> DateOf(timestamp) + Len(fed),
                                             pair |-> pair,
                                             side |-> side,
                                             amountEur |-> amountEur,
                                             price |-> price * perMille,
                                             reason |-> "backtest_rebalance"])]

\* simulator: TradeSimulator.executeTrade
executeTrade(st, timestamp, pair, side, amountEur, price) ==
    IF pair \notin DOMAIN COIN_FOR_PAIR THEN st
    ELSE LET coin == COIN_FOR_PAIR[pair]
             perMille == IF side = "BUY" THEN 1001 ELSE 999
             coins == CoinsFor(amountEur, price, perMille)
             balances ==
                 IF side = "BUY"
                 THEN [st.balances EXCEPT !["EUR"] = @ - amountEur, ![coin] = @ + coins]
                 ELSE [st.balances EXCEPT !["EUR"] = @ + amountEur, ![coin] = @ - coins]
         IN [st EXCEPT !.balances = balances,
                       !.lastTradeTime = DateOf(timestamp),
                       !.trades = Append(@, [timestamp |-> DateOf(timestamp),
                                             pair |-> pair,
                                             side |-> side,
                                             amountEur |-> amountEur,
                                             price |-> price * perMille,
                                             reason |-> "backtest_rebalance"])]

\* simulator: the loop of processCandle over the planned orders, from index k
RECURSIVE ExecuteTrades(_, _, _, _, _)
ExecuteTrades(st, timestamp, trades, k, prices) ==
    IF k > Len(trades) THEN st
    ELSE ExecuteTrades(executeTrade(st, timestamp, trades[k].pair, trades[k].side,
                                    trades[k].amountEur, prices[trades[k].pair]),
                       timestamp, trades, k + 1, prices)

\* simulator: TradeSimulator.recordSnapshot
recordSnapshot(st, timestamp, prices) ==
    [st EXCEPT !.snapshots =
        Append(@, [timestamp |-> DateOf(timestamp),
                   balances |-> st.balances,
                   totalValueEur |-> computePortfolioValue(st.balances, prices),
                   weights |-> computeCurrentWeights(st.balances, prices)])]

\* (peak - total) / peak >= 0.1, peak being positive
DrawdownReached(peakValueEur, totalValue) ==
    peakValueEur > 0 /\ (peakValueEur - totalValue) * 10 >= peakValueEur

\* if (this.state.lastTradeTime): null and 0 are both falsy
InCooldown(st, config, timestamp) ==
    /\ st.lastTradeTime # Null
    /\ st.lastTradeTime # 0
    /\ DateOf(timestamp) - st.lastTradeTime
           < config.strategyParams.cooldownMinutes * 60 * 1000

\* simulator: the orders processCandle plans once both gates are passed
PlannedTrades(st, config, prices, candlesMap) ==
    computeRebalanceTrades(config.pairs,
                           computeCurrentWeights(st.balances, prices),
                           SimTargetWeights(config, prices, candlesMap),
                           computePortfolioValue(st.balances, prices),
                           config.minTradeSizeEur,
                           config.strategyParams.maxTradePercent)

\* mutant: a tick in cooldown records no snapshot
ProcessCandleSilentCooldown(st, config, timestamp, prices, candlesMap) ==
    LET totalValue == computePortfolioValue(st.balances, prices)
        st1 == [st EXCEPT !.peakValueEur = Max(@, totalValue)]
    IN IF DrawdownReached(st1.peakValueEur, totalValue)
       THEN recordSnapshot(st1, timestamp, prices)
       ELSE IF InCooldown(st1, config, timestamp)
       THEN st1
       ELSE recordSnapshot(
                ExecuteTrades(st1, timestamp,
                              PlannedTrades(st1, config, prices, candlesMap),
                              1, prices),
                timestamp, prices)

\* mutant: the snapshot of a trading tick is taken before the tick's trades
ProcessCandleSnapshotFirst(st, config, timestamp, prices, candlesMap) ==
    LET totalValue == computePortfolioValue(st.balances, prices)
        st1 == [st EXCEPT !.peakValueEur = Max(@, totalValue)]
    IN IF DrawdownReached(st1.peakValueEur, totalValue)
       THEN recordSnapshot(st1, timestamp, prices)
       ELSE IF InCooldown(st1, config, timestamp)
       THEN recordSnapshot(st1, timestamp, prices)
       ELSE ExecuteTrades(recordSnapshot(st1, timestamp, prices), timestamp,
                          PlannedTrades(st1, config, prices, candlesMap),
                          1, prices)

\* simulator: TradeSimulator.processCandle
processCandle(st, config, timestamp, prices, candlesMap) ==
    LET totalValue == computePortfolioValue(st.balances, prices)
        st1 == [st EXCEPT !.peakValueEur = Max(@, totalValue)]
    IN IF DrawdownReached(st1.peakValueEur, totalValue)
       THEN recordSnapshot(st1, timestamp, prices)
       ELSE IF InCooldown(st1, config, timestamp)
       THEN recordSnapshot(st1, timestamp, prices)
       ELSE recordSnapshot(
                ExecuteTrades(st1, timestamp,
                              PlannedTrades(st1, config, prices, candlesMap),
                              1, prices),
                timestamp, prices)

----------------------------------------------------------------------------
(* Simulator inputs *)

MaxTicks == 4           \* processCandle calls on one simulator

\* runBacktest: the strategy parameters used when the caller gives none
DefaultStrategyParams ==
    [maxTradePercent |-> 20,
     stopLossPercent |-> 5,
     cooldownMinutes |-> 30,
     rsiOversoldThreshold |-> 30,
     rsiOverboughtThreshold |-> 70,
     baseWeights |-> ("BTC-EUR" :> 3330 @@ "ETH-EUR" :> 3330 @@ "SOL-EUR" :> 3340)]

\* runBacktest: DEFAULT_INITIAL_CAPITAL (1000 EUR), MIN_TRADE_SIZE_EUR (5 EUR)
DEFAULT_INITIAL_CAPITAL == 10000
MIN_TRADE_SIZE_EUR == 50

\* the StrategyParams a run is given: the default ones, the default ones with
\* maxTradePercent 0, and a grid point of the optimizer (btcHeavy weights)
SimStrategyParams ==
    {DefaultStrategyParams,
     [DefaultStrategyParams EXCEPT !.maxTradePercent = 0],
     [DefaultStrategyParams EXCEPT
         !.maxTradePercent = 30, !.cooldownMinutes = 15,
         !.rsiOversoldThreshold = 25, !.rsiOverboughtThreshold = 75,
         !.baseWeights = ("BTC-EUR" :> 5000 @@ "ETH-EUR" :> 3000 @@ "SOL-EUR" :> 2000)]}

\* runBacktest: the constructor arguments of the simulator
SimConfigs ==
    {[initialCapitalEur |-> DEFAULT_INITIAL_CAPITAL,
      config |-> [pairs |-> DEFAULT_PAIRS,
                  strategyParams |-> sp,
                  minTradeSizeEur |-> MIN_TRADE_SIZE_EUR]] :
        sp \in SimStrategyParams}

\* what the market does at a tick: the close of each pair at the tick and
\* before it (100 EUR is 1000), and whether there is a candle history
Markets == {"flat", "crash", "rally", "first"}

CloseNow(market, pair) ==
    IF market = "crash" THEN 800
    ELSE IF market = "rally" /\ pair = "BTC-EUR" THEN 1200
    ELSE 1000

\* the candles of a 4-hour series handed to a tick: one candle at the first
\* tick of a run, else 16 candles, the most recent first
HistoryLen == 16
FourHours == 14400

CandlesOf(market, pair, timestamp) ==
    [i \in 1..(IF market = "first" THEN 1 ELSE HistoryLen) |->
        Candle(timestamp - (i - 1) * FourHours,
               IF i = 1 THEN CloseNow(market, pair) ELSE 1000)]

PricesOf(market) == [pair \in {"BTC-EUR", "ETH-EUR", "SOL-EUR"} |-> CloseNow(market, pair)]

CandlesMapOf(market, timestamp) ==
    [pair \in {"BTC-EUR", "ETH-EUR", "SOL-EUR"} |-> CandlesOf(market, pair, timestamp)]

\* timestamps of the ticks, in seconds: the first one, and the steps between
\* consecutive ones (15 minutes, 1 hour)
FirstTimestamps == {0, 900}
TimestampSteps == {900, 3600}

NextTimestamps ==
    IF fed = <<>> THEN FirstTimestamps
    ELSE {fed[Len(fed)].timestamp + step : step \in TimestampSteps}

----------------------------------------------------------------------------
(* Simulator specification: instance A is fed ticks with increasing         *)
(* timestamps, and instance B, built with the same arguments, is fed the    *)
(* same calls, each after A has been fed it                                 *)

\* the variables of the promotion state machine
promotionVars == <<cand, configRow, clock, last, pcs, startDb>>

InitSim ==
    /\ cand = <<>>
    /\ configRow = <<>>
    /\ clock = 0
    /\ last = Call("none", 0, <<>>, "none", FALSE, 0, <<>>, 0, NoPerf)
    /\ pcs = <<>>
    /\ startDb = <<>>
    /\ simConfig \in SimConfigs
    /\ simA = NewSimulator(simConfig.initialCapitalEur)
    /\ simB = NewSimulator(simConfig.initialCapitalEur)
    /\ fed = <<>>
    /\ replayed = 0
    /\ pausedAt = {}
    /\ paperPortfolio = <<>>
    /\ livePortfolio = <<>>
    /\ ticked = "none"
    /\ tickDb = NoTicks
    /\ historical = <<>>
    /\ timeline = <<>>
    /\ cursor = 0
    /\ handed = <<>>
    /\ run = <<>>
    /\ opt = <<>>
    /\ fnArgs = <<>>
    /\ fnResult = <<>>

\* a processCandle call on A of the driver's for loop
ProcessCandleA ==
    /\ Len(fed) < MaxTicks
    /\ replayed = Len(fed)
    /\ \E timestamp \in NextTimestamps, market \in Markets :
          LET prices == PricesOf(market)
              totalValue == computePortfolioValue(simA.balances, prices)
          IN /\ simA' = processCandle(simA, simConfig.config, timestamp, prices,
                                      CandlesMapOf(market, timestamp))
             /\ fed' = Append(fed, [timestamp |-> timestamp, market |-> market])
             /\ pausedAt' =
                   IF DrawdownReached(Max(simA.peakValueEur, totalValue), totalValue)
                   THEN pausedAt \cup {Len(fed) + 1}
                   ELSE pausedAt
    /\ UNCHANGED <<simConfig, simB, replayed, promotionVars, tickVars, btVars, optVars, fnVars>>

\* the same call on B
ProcessCandleB ==
    /\ replayed < Len(fed)
    /\ LET call == fed[replayed + 1]
       IN simB' = processCandle(simB, simConfig.config, call.timestamp,
                                PricesOf(call.market),
                                CandlesMapOf(call.market, call.timestamp))
    /\ replayed' = replayed + 1
    /\ UNCHANGED <<simConfig, simA, fed, pausedAt, promotionVars, tickVars, btVars, optVars, fnVars>>

NextSim ==
    \/ ProcessCandleA
    \/ ProcessCandleB

SpecSim == InitSim /\ [][NextSim]_vars

----------------------------------------------------------------------------
(* Claims about the trade simulator, under SpecSim *)

\* a step is a processCandle call on A
TickOfA == fed' # fed

\* C12: once a tick of a run had a drawdown of at least 10 %, no trade is
\* executed at that tick or at any later tick of the run.
C12_DrawdownPauseIsSticky ==
    [][(TickOfA /\ pausedAt' # {}) => simA'.trades = simA.trades]_vars

\* the trades of simulator state st recorded at the tick with this timestamp
TradesAt(st, timestamp) ==
    SelectSeq(st.trades, LAMBDA t : t.timestamp = DateOf(timestamp))

\* C13: every processCandle call appends exactly one snapshot, stamped with
\* the tick's timestamp, after the snapshots recorded before, which it leaves
\* as they were; so after n ticks there are n snapshots in call order.
C13_OneSnapshotPerTick ==
    [][TickOfA =>
          /\ Len(simA'.snapshots) = Len(simA.snapshots) + 1
          /\ Len(simA'.snapshots) = Len(fed')
          /\ SubSeq(simA'.snapshots, 1, Len(simA.snapshots)) = simA.snapshots
          /\ simA'.snapshots[Len(fed')].timestamp = DateOf(fed'[Len(fed')].timestamp)]_vars

\* C13 witness: a run with a snapshot from each case: a tick that traded, a
\* tick in cooldown (15 minutes after a trade, cooldown 30 minutes) and a tick
\* with the drawdown gate closed.
C13_Witness ==
    /\ Len(simA.snapshots) = MaxTicks
    /\ simConfig.config.strategyParams.cooldownMinutes = 30
    /\ pausedAt # {}
    /\ \E i \in 2..Len(fed) :
          /\ i \notin pausedAt
          /\ fed[i - 1].timestamp > 0
          /\ fed[i].timestamp - fed[i - 1].timestamp = 900
          /\ TradesAt(simA, fed[i - 1].timestamp) # <<>>
          /\ TradesAt(simA, fed[i].timestamp) = <<>>

\* cooldownMinutes of the run, in milliseconds
CooldownMs == simConfig.config.strategyParams.cooldownMinutes * 60 * 1000

\* C14: a tick less than cooldownMinutes after the tick of the last executed
\* trade executes no trade; so any two trades recorded at different ticks are
\* at least cooldownMinutes apart.
C14_NoTradeWithinCooldown ==
    [][(/\ TickOfA
        /\ simA.trades # <<>>
        /\ DateOf(fed'[Len(fed')].timestamp)
              - simA.trades[Len(simA.trades)].timestamp < CooldownMs)
          => simA'.trades = simA.trades]_vars

\* no price has moved in the ticks fed so far
NoPriceMoves == \A k \in 1..Len(fed) : fed[k].market \in {"flat", "first"}

\* C15: with maxTradePercent 0 the simulator records no trade at all (none
\* of amount 0 either), and while no price moves every snapshot's
\* totalValueEur is the initial capital.
C15_ZeroMaxTradeRecordsNoTrade ==
    simConfig.config.strategyParams.maxTradePercent = 0 =>
        /\ simA.trades = <<>>
        /\ NoPriceMoves =>
              \A k \in 1..Len(simA.snapshots) :
                  simA.snapshots[k].totalValueEur = simConfig.initialCapitalEur

\* the ticks of A at which a trade was recorded, by index in fed
TradingTicks == {k \in 1..Len(fed) : TradesAt(simA, fed[k].timestamp) # <<>>}

\* C16: with 1000 EUR, the three pairs equal-weighted, the default
\* maxTradePercent and constant prices, trades are executed in at most one
\* tick of the run.
C16_FlatPricesTradeInOneTick ==
    (/\ simConfig.initialCapitalEur = DEFAULT_INITIAL_CAPITAL
     /\ simConfig.config.strategyParams = DefaultStrategyParams
     /\ NoPriceMoves)
        => Cardinality(TradingTicks) <= 1

ValueOfBalances(balances, prices) ==
    balances["EUR"]
      + Quot(balances["BTC"] * prices["BTC-EUR"], One)
      + Quot(balances["ETH"] * prices["ETH-EUR"], One)
      + Quot(balances["SOL"] * prices["SOL-EUR"], One)

\* C18: the snapshot recorded by a tick holds the balances left by that
\* tick's trades, and its totalValueEur is the EUR balance plus the sum over
\* the configured pairs of asset balance times the price passed to the tick.
C18_SnapshotValueIsPostTradeValue ==
    [][TickOfA =>
          LET snapshot == simA'.snapshots[Len(simA'.snapshots)]
              prices == PricesOf(fed'[Len(fed')].market)
          IN /\ snapshot.balances = simA'.balances
             /\ snapshot.totalValueEur = ValueOfBalances(simA'.balances, prices)]_vars

\* a tick that sold coins after a rally, and an earlier tick at crash prices
C18_Witness ==
    /\ \E k \in 1..Len(simA.trades) : simA.trades[k].side = "SELL"
    /\ TradesAt(simA, fed[Len(fed)].timestamp) # <<>>
    /\ \E k \in 1..Len(fed) : fed[k].market = "crash"
    /\ simA.snapshots[Len(simA.snapshots)].totalValueEur # simConfig.initialCapitalEur

----------------------------------------------------------------------------
(* The paper and live trading ticks: what they store as peak value          *)

(* Of a PortfolioState the model keeps totalValueEur, peakValueEur and      *)
(* drawdownPaused.  The balances and the fetched prices enter a tick only   *)
(* through the portfolio value they give, which is an input of the tick.    *)
PortfolioState(totalValueEur, peakValueEur, drawdownPaused) ==
    [totalValueEur |-> totalValueEur,
     peakValueEur |-> peakValueEur,
     drawdownPaused |-> drawdownPaused]

\* safety.checkDrawdown(...).paused, maxDrawdown in percent
checkDrawdown(currentValue, peakValue, maxDrawdown) ==
    IF peakValue <= 0 THEN FALSE
    ELSE (peakValue - currentValue) * 100 >= maxDrawdown * peakValue

MaxDrawdownPercent == 10    \* maxDrawdownPercent 0.1 of the trading configs

\* paper-store.initializePaperPortfolio: the portfolio it stores and returns
initializePaperPortfolio(initialCapital) ==
    PortfolioState(initialCapital, initialCapital, FALSE)

\* mutant: the tick stores the new portfolio value as the peak
ExecutePaperTickPeakIsValue(stored, cooldown, totalValue, newTotalValue) ==
    LET portfolio == IF stored = <<>>
                     THEN initializePaperPortfolio(DEFAULT_INITIAL_CAPITAL)
                     ELSE stored[1]
    IN IF portfolio.drawdownPaused THEN <<portfolio>>
       ELSE IF cooldown THEN <<portfolio>>
       ELSE LET peakValue == IF portfolio.peakValueEur = Null
                             THEN totalValue
                             ELSE portfolio.peakValueEur
            IN IF checkDrawdown(totalValue, peakValue, MaxDrawdownPercent)
               THEN <<[portfolio EXCEPT !.drawdownPaused = TRUE]>>
               ELSE <<PortfolioState(newTotalValue, newTotalValue, FALSE)>>

(* paper-executor.executePaperTick: the row of paper_portfolio it leaves.   *)
(* totalValue is the value of the stored balances at the fetched prices,    *)
(* newTotalValue the value of the balances after the simulated orders.      *)
executePaperTick(stored, cooldown, totalValue, newTotalValue) ==
    LET portfolio == IF stored = <<>>
                     THEN initializePaperPortfolio(DEFAULT_INITIAL_CAPITAL)
                     ELSE stored[1]
    IN IF portfolio.drawdownPaused THEN <<portfolio>>
       ELSE IF cooldown THEN <<portfolio>>
       ELSE LET peakValue == IF portfolio.peakValueEur = Null
                             THEN totalValue
                             ELSE portfolio.peakValueEur
            IN IF checkDrawdown(totalValue, peakValue, MaxDrawdownPercent)
               THEN <<[portfolio EXCEPT !.drawdownPaused = TRUE]>>
               ELSE <<PortfolioState(newTotalValue,
                                     Max(peakValue, newTotalValue), FALSE)>>

(* POST /api/trading/status: the row of portfolio it leaves.  Without a row *)
(* the balances are all 0; an order that succeeded is booked at the fetched *)
(* price, so the value after the orders is the value before them.           *)
tradingTick(stored, enabled, cooldown, totalValueOfRow) ==
    IF ~enabled THEN stored
    ELSE IF stored # <<>> /\ stored[1].drawdownPaused THEN stored
    ELSE IF cooldown THEN stored
    ELSE LET totalValue == IF stored = <<>> THEN 0 ELSE totalValueOfRow
             peakValue == IF stored = <<>> \/ stored[1].peakValueEur = Null
                          THEN totalValue
                          ELSE stored[1].peakValueEur
             newTotalValue == totalValue
         IN IF checkDrawdown(totalValue, peakValue, MaxDrawdownPercent)
            THEN IF stored # <<>>
                 THEN <<[stored[1] EXCEPT !.drawdownPaused = TRUE]>>
                 ELSE stored
            ELSE <<PortfolioState(newTotalValue,
                                  Max(peakValue, newTotalValue), FALSE)>>

\* what POST /api/trading/status returns as status; "error" is the answer of
\* its catch block, reached when fetching the market data throws
tradingTickStatus(stored, enabled, cooldown, totalValueOfRow, fetchFails) ==
    IF ~enabled THEN "disabled"
    ELSE IF stored # <<>> /\ stored[1].drawdownPaused THEN "drawdown_paused"
    ELSE IF cooldown THEN "cooldown"
    ELSE IF fetchFails THEN "error"
    ELSE LET totalValue == IF stored = <<>> THEN 0 ELSE totalValueOfRow
             peakValue == IF stored = <<>> \/ stored[1].peakValueEur = Null
                          THEN totalValue
                          ELSE stored[1].peakValueEur
         IN IF checkDrawdown(totalValue, peakValue, MaxDrawdownPercent)
            THEN "drawdown_triggered"
            ELSE "ok"

\* POST /api/trading/status: the lastTickTime of the row of state it leaves,
\* written by the setState at the end of the handler and by the one of its
\* catch block
tradingTickState(lastTickTime, status, now) ==
    IF status \in {"ok", "error"} THEN now ELSE lastTickTime

\* mutant: a paused tick that looks at the drawdown again
PaperTickStatusRechecked(stored, cooldown, totalValue) ==
    LET portfolio == IF stored = <<>>
                     THEN initializePaperPortfolio(DEFAULT_INITIAL_CAPITAL)
                     ELSE stored[1]
    IN IF cooldown THEN "cooldown"
       ELSE LET peakValue == IF portfolio.peakValueEur = Null
                             THEN totalValue
                             ELSE portfolio.peakValueEur
            IN IF checkDrawdown(totalValue, peakValue, MaxDrawdownPercent)
               THEN "drawdown_triggered"
               ELSE "ok"

\* paper-executor.executePaperTick: the status it returns
executePaperTickStatus(stored, cooldown, totalValue) ==
    LET portfolio == IF stored = <<>>
                     THEN initializePaperPortfolio(DEFAULT_INITIAL_CAPITAL)
                     ELSE stored[1]
    IN IF portfolio.drawdownPaused THEN "drawdown_paused"
       ELSE IF cooldown THEN "cooldown"
       ELSE LET peakValue == IF portfolio.peakValueEur = Null
                             THEN totalValue
                             ELSE portfolio.peakValueEur
            IN IF checkDrawdown(totalValue, peakValue, MaxDrawdownPercent)
               THEN "drawdown_triggered"
               ELSE "ok"

MaxTickTime == 5        \* requests to the tick and reset routes

\* portfolio values the fetched prices can give, in tenths of a euro
PortfolioValues == {8000, 9500, 10000, 10500, 12000}

\* what the 0.1 % slippage of a tick's simulated orders costs
SlippageCosts == {0, 6}

\* initialCapital of a reset request
ResetCapitals == {5000, 10000}

\* rows of portfolio present before the first tick: none, a funded one, and
\* one written without peakValueEur
LiveRows ==
    {<<>>,
     <<PortfolioState(10000, 10000, FALSE)>>,
     <<PortfolioState(10000, Null, FALSE)>>}

InitPeak ==
    /\ cand = <<>>
    /\ configRow = <<>>
    /\ clock = 0
    /\ last = Call("none", 0, <<>>, "none", FALSE, 0, <<>>, 0, NoPerf)
    /\ pcs = <<>>
    /\ startDb = <<>>
    /\ simConfig \in SimConfigs
    /\ simA = NewSimulator(simConfig.initialCapitalEur)
    /\ simB = NewSimulator(simConfig.initialCapitalEur)
    /\ fed = <<>>
    /\ replayed = 0
    /\ pausedAt = {}
    /\ paperPortfolio = <<>>
    /\ livePortfolio \in LiveRows
    /\ ticked = "none"
    /\ tickDb = NoTicks
    /\ historical = <<>>
    /\ timeline = <<>>
    /\ cursor = 0
    /\ handed = <<>>
    /\ run = <<>>
    /\ opt = <<>>
    /\ fnArgs = <<>>
    /\ fnResult = <<>>

\* one call of executePaperTick
PaperTick ==
    /\ tickDb.now < MaxTickTime
    /\ \E cooldown \in BOOLEAN, slippage \in SlippageCosts,
          totalValue \in (IF paperPortfolio = <<>>
                          THEN {DEFAULT_INITIAL_CAPITAL}
                          ELSE PortfolioValues) :
          LET now == tickDb.now + 1
              status == executePaperTickStatus(paperPortfolio, cooldown, totalValue)
              executedTrades == IF status = "ok" /\ slippage > 0 THEN 1 ELSE 0
          IN /\ paperPortfolio' = executePaperTick(paperPortfolio, cooldown,
                                                   totalValue, totalValue - slippage)
             /\ tickDb' = [tickDb EXCEPT
                              !.now = now,
                              !.paper_state = now,
                              !.paper_trades = @ + executedTrades,
                              !.paper_pnl_history = @ + (IF status = "ok" THEN 1 ELSE 0),
                              !.status = status]
    /\ ticked' = "paper"
    /\ UNCHANGED <<livePortfolio, simVars, promotionVars, btVars, optVars, fnVars>>

\* one POST /api/trading/status
LiveTick ==
    /\ tickDb.now < MaxTickTime
    /\ \E enabled \in BOOLEAN, cooldown \in BOOLEAN, fetchFails \in BOOLEAN,
          totalValue \in PortfolioValues \cup {0} :
          LET now == tickDb.now + 1
              status == tradingTickStatus(livePortfolio, enabled, cooldown,
                                          totalValue, fetchFails)
          IN /\ livePortfolio' = IF status = "error" THEN livePortfolio
                                 ELSE tradingTick(livePortfolio, enabled, cooldown,
                                                  totalValue)
             /\ tickDb' = [tickDb EXCEPT
                              !.now = now,
                              !.state = tradingTickState(@, status, now),
                              !.status = status]
    /\ ticked' = "live"
    /\ UNCHANGED <<paperPortfolio, simVars, promotionVars, btVars, optVars, fnVars>>

\* POST /api/paper-trading/status with action reset: a new paper run
ResetPaperTrading ==
    /\ tickDb.now < MaxTickTime
    /\ \E initialCapital \in ResetCapitals :
          paperPortfolio' = <<initializePaperPortfolio(initialCapital)>>
    /\ tickDb' = [tickDb EXCEPT !.now = @ + 1,
                                !.paper_state = Null,
                                !.paper_trades = 0,
                                !.paper_pnl_history = 0,
                                !.status = "reset"]
    /\ ticked' = "reset"
    /\ UNCHANGED <<livePortfolio, simVars, promotionVars, btVars, optVars, fnVars>>

(* The simulator and the stored portfolios share no state: a behaviour is   *)
(* either a simulator run or a sequence of ticks and resets.                *)
NextPeak ==
    \/ ticked = "none" /\ ProcessCandleA
    \/ ticked = "none" /\ ProcessCandleB
    \/ fed = <<>> /\ PaperTick
    \/ fed = <<>> /\ LiveTick
    \/ fed = <<>> /\ ResetPaperTrading

SpecPeak == InitPeak /\ [][NextPeak]_vars

\* the peak stored in a row, if the row stores one
StoresPeak(stored) == stored # <<>> /\ stored[1].peakValueEur # Null

----------------------------------------------------------------------------
(* Evaluation metrics.  Fractions (returns, drawdown, win rate, scores) are  *)
(* in 1/10000, the Sharpe ratio in hundredths; quotients are truncated.      *)

\* calculateTotalReturn: (final - initial) / initial
calculateTotalReturn(snapshots, initialCapital) ==
    IF Len(snapshots) = 0 THEN 0
    ELSE Quot((snapshots[Len(snapshots)].totalValueEur - initialCapital) * One,
              initialCapital)

(***************************************************************************)
(* Floating-point numbers.  calculateSharpeRatio tests a computed standard *)
(* deviation against 0, so the rounding of each operation decides its      *)
(* result.  A number is m * 2^e with a significand of Precision bits       *)
(* (IEEE 754 doubles have 53), every operation rounding its exact result   *)
(* to the nearest number, ties to the even significand.                    *)
(***************************************************************************)
Precision == 13

RECURSIVE BitLength(_)
BitLength(n) == IF n = 0 THEN 0 ELSE 1 + BitLength(n \div 2)

FZero == [m |-> 0, e |-> 0]

\* the number nearest to n * 2^e
FRound(n, e) ==
    IF n = 0 THEN FZero
    ELSE LET sign == IF n < 0 THEN -1 ELSE 1
             a == Abs(n)
             bits == BitLength(a)
         IN IF bits <= Precision
            THEN [m |-> sign * a * 2^(Precision - bits),
                  e |-> e - (Precision - bits)]
            ELSE LET shift == bits - Precision
                     q == a \div 2^shift
                     r == a % 2^shift
                     half == 2^(shift - 1)
                     up == IF r > half \/ (r = half /\ q % 2 = 1)
                           THEN q + 1 ELSE q
                 IN IF up = 2^Precision
                    THEN [m |-> sign * 2^(Precision - 1), e |-> e + shift + 1]
                    ELSE [m |-> sign * up, e |-> e + shift]

FromInt(n) == FRound(n, 0)

FNeg(a) == [m |-> -a.m, e |-> a.e]

\* a + b; an operand below a quarter of the other's last place is absorbed
FAdd(a, b) ==
    IF a.m = 0 THEN b
    ELSE IF b.m = 0 THEN a
    ELSE LET hi == IF a.e >= b.e THEN a ELSE b
             lo == IF a.e >= b.e THEN b ELSE a
             d == hi.e - lo.e
         IN IF d > Precision + 1 THEN hi
            ELSE FRound(hi.m * 2^d + lo.m, lo.e)

FSub(a, b) == FAdd(a, FNeg(b))

FMul(a, b) == FRound(a.m * b.m, a.e + b.e)

\* a / b for b # 0: the quotient to Precision + 2 bits and a sticky bit
FDiv(a, b) ==
    IF a.m = 0 THEN FZero
    ELSE LET sign == IF (a.m < 0) = (b.m < 0) THEN 1 ELSE -1
             num == Abs(a.m) * 2^(Precision + 2)
             q == num \div Abs(b.m)
             r == num % Abs(b.m)
         IN FRound(sign * (2 * q + (IF r = 0 THEN 0 ELSE 1)),
                   a.e - b.e - (Precision + 2) - 1)

\* the greatest r in lo..hi with r * r <= x
RECURSIVE IsqrtIn(_, _, _)
IsqrtIn(x, lo, hi) ==
    IF lo >= hi THEN lo
    ELSE LET mid == (lo + hi + 1) \div 2
         IN IF mid * mid <= x THEN IsqrtIn(x, mid, hi) ELSE IsqrtIn(x, lo, mid - 1)

Isqrt(x) == IsqrtIn(x, 0, 46340)

\* Math.sqrt of a >= 0
FSqrt(a) ==
    IF a.m = 0 THEN FZero
    ELSE LET k == IF (a.e - 16) % 2 = 0 THEN 16 ELSE 17
             n == a.m * 2^k
             s == Isqrt(n)
         IN FRound(2 * s + (IF s * s = n THEN 0 ELSE 1), (a.e - k) \div 2 - 1)

FLess(a, b) == FSub(a, b).m < 0

\* a number within [-3, 3] in hundredths, truncated
InHundredths(a) ==
    IF a.e >= 0 THEN a.m * 100 * 2^(a.e)
    ELSE IF -a.e > 30 THEN 0
    ELSE Quot(a.m * 100, 2^(-a.e))

RECURSIVE FSum(_)
FSum(s) == IF s = <<>> THEN FZero ELSE FAdd(FSum(SubSeq(s, 1, Len(s) - 1)), s[Len(s)])

\* calculateSharpeRatio: the returns between consecutive snapshots, from the
\* i-th snapshot on, a snapshot after a value of 0 giving none
RECURSIVE ReturnsFrom(_, _)
ReturnsFrom(snapshots, i) ==
    IF i > Len(snapshots) THEN <<>>
    ELSE LET prevValue == snapshots[i - 1].totalValueEur
             currValue == snapshots[i].totalValueEur
         IN (IF prevValue > 0
             THEN <<FDiv(FSub(FromInt(currValue), FromInt(prevValue)),
                         FromInt(prevValue))>>
             ELSE <<>>)
              \o ReturnsFrom(snapshots, i + 1)

\* calculateSharpeRatio, in hundredths
calculateSharpeRatio(snapshots) ==
    IF Len(snapshots) < 2 THEN 0
    ELSE LET returns == ReturnsFrom(snapshots, 2)
         IN IF Len(returns) = 0 THEN 0
            ELSE LET meanReturn == FDiv(FSum(returns), FromInt(Len(returns)))
                     variance ==
                         FDiv(FSum([k \in 1..Len(returns) |->
                                      FMul(FSub(returns[k], meanReturn),
                                           FSub(returns[k], meanReturn))]),
                              FromInt(Len(returns)))
                     stdDev == FSqrt(variance)
                 IN IF stdDev.m = 0
                    THEN (IF meanReturn.m > 0 THEN 300 ELSE 0)
                    ELSE LET sharpe == FMul(FDiv(meanReturn, stdDev),
                                            FSqrt(FromInt(6 * 365)))
                         IN IF FLess(FromInt(3), sharpe) THEN 300
                            ELSE IF FLess(sharpe, FromInt(-3)) THEN -300
                            ELSE InHundredths(sharpe)

\* calculateMaxDrawdown: the loop from snapshot k on
RECURSIVE MaxDrawdownFrom(_, _, _, _)
MaxDrawdownFrom(snapshots, k, peak, maxDrawdown) ==
    IF k > Len(snapshots) THEN maxDrawdown
    ELSE LET value == snapshots[k].totalValueEur
             peak1 == IF value > peak THEN value ELSE peak
             drawdown == IF peak1 <= 0 THEN 0
                         ELSE Quot((peak1 - value) * One, peak1)
         IN MaxDrawdownFrom(snapshots, k + 1, peak1,
                            IF drawdown > maxDrawdown THEN drawdown ELSE maxDrawdown)

\* mutant: the decline from the first value, not from the running peak
CalculateDrawdownFromFirst(snapshots) ==
    IF Len(snapshots) = 0 THEN 0
    ELSE LET first == snapshots[1].totalValueEur
             lowest == CHOOSE v \in {snapshots[k].totalValueEur : k \in 1..Len(snapshots)} :
                          \A k \in 1..Len(snapshots) : v <= snapshots[k].totalValueEur
         IN IF first <= 0 THEN 0 ELSE Quot((first - lowest) * One, first)

calculateMaxDrawdown(snapshots) ==
    IF Len(snapshots) = 0 THEN 0
    ELSE MaxDrawdownFrom(snapshots, 1, snapshots[1].totalValueEur, 0)

\* calculateWinRate: the pairs in the order of their first trade
RECURSIVE PairsInOrder(_, _)
PairsInOrder(trades, seen) ==
    IF trades = <<>> THEN <<>>
    ELSE IF Head(trades).pair \in seen THEN PairsInOrder(Tail(trades), seen)
    ELSE <<Head(trades).pair>>
           \o PairsInOrder(Tail(trades), seen \cup {Head(trades).pair})

\* trades[...].filter by pair, in order
RECURSIVE TradesOfPair(_, _)
TradesOfPair(trades, pair) ==
    IF trades = <<>> THEN <<>>
    ELSE (IF Head(trades).pair = pair THEN <<Head(trades)>> ELSE <<>>)
           \o TradesOfPair(Tail(trades), pair)

PriceUnit == 100    \* trade prices are compared in units of 100 of theirs

\* calculateWinRate: the profitable sells among one pair's trades from the
\* k-th on, with the open position and its average entry price (a
\* floating-point quotient, rounded to the nearest unit here)
RECURSIVE ProfitableFrom(_, _, _, _)
ProfitableFrom(pairTrades, k, position, entryPrice) ==
    IF k > Len(pairTrades) THEN 0
    ELSE LET trade == pairTrades[k]
             price == Quot(trade.price, PriceUnit)
         IN IF trade.side = "BUY"
            THEN IF position <= 0
                 THEN ProfitableFrom(pairTrades, k + 1, trade.amountEur, price)
                 ELSE ProfitableFrom(pairTrades, k + 1, position + trade.amountEur,
                                     Quot(2 * (entryPrice * position + price * trade.amountEur)
                                            + position + trade.amountEur,
                                          2 * (position + trade.amountEur)))
            ELSE LET won == IF position > 0 /\ entryPrice > 0 /\ price > entryPrice
                            THEN 1 ELSE 0
                     left == position - trade.amountEur
                 IN won + (IF left <= 0
                           THEN ProfitableFrom(pairTrades, k + 1, 0, 0)
                           ELSE ProfitableFrom(pairTrades, k + 1, left, entryPrice))

\* mutant: every SELL made while a position is open counts as a win
WinRateOfEverySell(trades) ==
    IF Len(trades) = 0 THEN 0
    ELSE LET pairs == PairsInOrder(trades, {})
             sells == Cardinality({k \in 1..Len(trades) : trades[k].side = "SELL"})
         IN Quot(Min(sells, Len(trades)) * One, Len(trades))

calculateWinRate(trades) ==
    IF Len(trades) = 0 THEN 0
    ELSE LET pairs == PairsInOrder(trades, {})
             profitableTrades ==
                 SumSeq([i \in 1..Len(pairs) |->
                            ProfitableFrom(TradesOfPair(trades, pairs[i]), 1, 0, 0)])
         IN Quot(profitableTrades * One, Len(trades))

\* Math.max(0, Math.min(1, x))
Clamp01(x) == Max(0, Min(One, x))

\* mutant: the return is normalized without the clamp to [0, 1]
CombinedScoreOfUnclampedReturn(totalReturn, sharpeRatio, maxDrawdown, winRate) ==
    LET normalizedReturn == Quot((totalReturn + 5000) * 2, 3)
        normalizedSharpe == Clamp01((sharpeRatio + 100) * 25)
        normalizedDrawdown == Clamp01(One - maxDrawdown * 2)
        normalizedWinRate == Clamp01(winRate)
    IN Quot(normalizedReturn * 30 + normalizedSharpe * 30
              + normalizedDrawdown * 25 + normalizedWinRate * 15, 100)

calculateCombinedScore(totalReturn, sharpeRatio, maxDrawdown, winRate) ==
    LET normalizedReturn == Clamp01(Quot((totalReturn + 5000) * 2, 3))
        normalizedSharpe == Clamp01((sharpeRatio + 100) * 25)
        normalizedDrawdown == Clamp01(One - maxDrawdown * 2)
        normalizedWinRate == Clamp01(winRate)
    IN Quot(normalizedReturn * 30 + normalizedSharpe * 30
              + normalizedDrawdown * 25 + normalizedWinRate * 15, 100)

\* mutant: the metrics without the case of an empty snapshot sequence
CalculateMetricsOfAny(snapshots, trades, initialCapital) ==
    LET totalReturn == calculateTotalReturn(snapshots, initialCapital)
        sharpeRatio == calculateSharpeRatio(snapshots)
        maxDrawdown == calculateMaxDrawdown(snapshots)
        winRate == calculateWinRate(trades)
    IN [totalReturn |-> totalReturn,
        sharpeRatio |-> sharpeRatio,
        maxDrawdown |-> maxDrawdown,
        winRate |-> winRate,
        totalTrades |-> Len(trades),
        combinedScore |-> calculateCombinedScore(totalReturn, sharpeRatio,
                                                 maxDrawdown, winRate)]

calculateMetrics(snapshots, trades, initialCapital) ==
    IF Len(snapshots) = 0
    THEN [totalReturn |-> 0, sharpeRatio |-> 0, maxDrawdown |-> 0,
          winRate |-> 0, totalTrades |-> 0, combinedScore |-> 0]
    ELSE LET totalReturn == calculateTotalReturn(snapshots, initialCapital)
             sharpeRatio == calculateSharpeRatio(snapshots)
             maxDrawdown == calculateMaxDrawdown(snapshots)
             winRate == calculateWinRate(trades)
         IN [totalReturn |-> totalReturn,
             sharpeRatio |-> sharpeRatio,
             maxDrawdown |-> maxDrawdown,
             winRate |-> winRate,
             totalTrades |-> Len(trades),
             combinedScore |-> calculateCombinedScore(totalReturn, sharpeRatio,
                                                      maxDrawdown, winRate)]

----------------------------------------------------------------------------
(* The backtest driver: the candles and prices it derives for each tick     *)

\* fullConfig.pairs as a set
PairSet == {DEFAULT_PAIRS[k] : k \in 1..Len(DEFAULT_PAIRS)}

NumSlots == 27                  \* 4-hour slots in the fetched window
MAX_CANDLES_PER_REQUEST == 10   \* 300 in the source, scaled with the window
GranSec == 14400                \* GRANULARITY_SECONDS.FOUR_HOUR
RecentCount == 24               \* getRecentCandles(candles, timestamp, 24)

WindowStart == GranSec
WindowEnd == WindowStart + NumSlots * GranSec

\* what the exchange has for a pair: every slot, none of the first three,
\* some missing in the middle and at the end, only the first two, nothing
Series == {"full", "late", "gappy", "short", "none"}

SlotsOf(series) ==
    CASE series = "full" -> 0..(NumSlots - 1)
      [] series = "late" -> 3..(NumSlots - 1)
      [] series = "gappy" -> (0..(NumSlots - 1)) \ {5, 6, NumSlots - 1}
      [] series = "short" -> {0, 1}
      [] OTHER -> {}

\* the close of the candle of a pair that starts at start: one per slot
CloseOf(pair, start) ==
    (start \div GranSec)
      + (CASE pair = "BTC-EUR" -> 1000 [] pair = "ETH-EUR" -> 1100 [] OTHER -> 900)

\* the candles of a pair that start in a set of slots, by increasing or by
\* decreasing start
RECURSIVE CandlesInOrder(_, _, _)
CandlesInOrder(pair, slots, ascending) ==
    IF slots = {} THEN <<>>
    ELSE LET first == IF ascending
                      THEN CHOOSE i \in slots : \A j \in slots : i <= j
                      ELSE CHOOSE i \in slots : \A j \in slots : i >= j
             start == WindowStart + first * GranSec
         IN <<Candle(start, CloseOf(pair, start))>>
              \o CandlesInOrder(pair, slots \ {first}, ascending)

\* fetchCandlesBatch: the exchange's answer for the window startTs..endTs,
\* both ends included, in the order the exchange lists candles
fetchCandlesBatch(pair, series, ascending, startTs, endTs) ==
    CandlesInOrder(pair,
                   {i \in SlotsOf(series) :
                       /\ startTs <= WindowStart + i * GranSec
                       /\ WindowStart + i * GranSec <= endTs},
                   ascending)

CeilDiv(a, b) == (a + b - 1) \div b

\* fetchCandlesForWindow: the while loop, from the end of the window back
RECURSIVE FetchBatches(_, _, _, _, _, _)
FetchBatches(pair, series, ascending, startTs, currentEnd, allCandles) ==
    IF currentEnd <= startTs THEN allCandles
    ELSE LET batchSize == Min(MAX_CANDLES_PER_REQUEST,
                              CeilDiv(currentEnd - startTs, GranSec))
             batchStart == currentEnd - batchSize * GranSec
         IN FetchBatches(pair, series, ascending, startTs, batchStart,
                         allCandles \o fetchCandlesBatch(pair, series, ascending,
                                                         batchStart, currentEnd))

\* the place of a candle in a list sorted by decreasing start: after the
\* candles that start later or at the same time (Array.sort is stable)
RECURSIVE InsertDescending(_, _)
InsertDescending(candle, sorted) ==
    IF sorted = <<>> THEN <<candle>>
    ELSE IF sorted[1].start >= candle.start
    THEN <<sorted[1]>> \o InsertDescending(candle, Tail(sorted))
    ELSE <<candle>> \o sorted

\* allCandles.sort((a, b) => parseInt(b.start) - parseInt(a.start))
RECURSIVE SortDescending(_, _)
SortDescending(candles, k) ==
    IF k = 0 THEN <<>>
    ELSE InsertDescending(candles[k], SortDescending(candles, k - 1))

\* the filter on the set of starts seen: the first candle of each start
RECURSIVE UniqueCandles(_, _)
UniqueCandles(candles, seen) ==
    IF candles = <<>> THEN <<>>
    ELSE IF candles[1].start \in seen
    THEN UniqueCandles(Tail(candles), seen)
    ELSE <<candles[1]>> \o UniqueCandles(Tail(candles), seen \cup {candles[1].start})

\* fetchCandlesForWindow on a cache miss
fetchCandlesForWindow(pair, series, ascending, startTs, endTs) ==
    LET allCandles == FetchBatches(pair, series, ascending, startTs, endTs, <<>>)
    IN UniqueCandles(SortDescending(allCandles, Len(allCandles)), {})

\* fetchHistoricalCandles: the series of every pair
fetchHistoricalCandles(pairs, seriesOf, ascending) ==
    [pair \in pairs |->
        fetchCandlesForWindow(pair, seriesOf[pair], ascending, WindowStart, WindowEnd)]

RECURSIVE SortAscending(_)
SortAscending(starts) ==
    IF starts = {} THEN <<>>
    ELSE LET first == CHOOSE a \in starts : \A b \in starts : a <= b
         IN <<first>> \o SortAscending(starts \ {first})

\* mutant: the starts of the first pair's candles only
GetTimestampsOfFirstPair(series) ==
    SortAscending({series["BTC-EUR"][k].start : k \in 1..Len(series["BTC-EUR"])})

\* getTimestampsFromCandles: every start of every pair, once, oldest first
getTimestampsFromCandles(series) ==
    SortAscending(UNION {{series[pair][k].start : k \in 1..Len(series[pair])} :
                            pair \in DOMAIN series})

\* mutant: the first count candles of the list, whatever their start
GetRecentCandlesUnfiltered(candles, timestamp, count) ==
    SubSeq(candles, 1, Min(count, Len(candles)))

\* getRecentCandles: the loop from candle k on, result being what it has so far
RECURSIVE RecentFrom(_, _, _, _, _)
RecentFrom(candles, ts, count, k, result) ==
    IF k > Len(candles) THEN result
    ELSE IF candles[k].start <= ts
    THEN IF Len(result) + 1 >= count
         THEN Append(result, candles[k])
         ELSE RecentFrom(candles, ts, count, k + 1, Append(result, candles[k]))
    ELSE RecentFrom(candles, ts, count, k + 1, result)

getRecentCandles(candles, timestamp, count) ==
    RecentFrom(candles, timestamp, count, 1, <<>>)

\* runBacktest: the configuration it runs when given none
DefaultSimConfig ==
    [initialCapitalEur |-> DEFAULT_INITIAL_CAPITAL,
     config |-> [pairs |-> DEFAULT_PAIRS,
                 strategyParams |-> DefaultStrategyParams,
                 minTradeSizeEur |-> MIN_TRADE_SIZE_EUR]]

\* runBacktest: the configurations run, the default one and one with an
\* initial capital of 10 EUR, too little for any order
BacktestConfigs ==
    {DefaultSimConfig, [DefaultSimConfig EXCEPT !.initialCapitalEur = 100]}

\* the row recordBacktestStart inserts, with what fetchHistoricalCandles
\* will do (return the series or throw), and how the call ended
RunStarted(fetch) ==
    [status |-> "running", error |-> "", fetch |-> fetch,
     outcome |-> "pending", metrics |-> <<>>]

InitBacktest ==
    /\ cand = <<>>
    /\ configRow = <<>>
    /\ clock = 0
    /\ last = Call("none", 0, <<>>, "none", FALSE, 0, <<>>, 0, NoPerf)
    /\ pcs = <<>>
    /\ startDb = <<>>
    /\ simConfig \in BacktestConfigs
    /\ simA = NewSimulator(simConfig.initialCapitalEur)
    /\ simB = NewSimulator(simConfig.initialCapitalEur)
    /\ fed = <<>>
    /\ replayed = 0
    /\ pausedAt = {}
    /\ paperPortfolio = <<>>
    /\ livePortfolio = <<>>
    /\ ticked = "none"
    /\ tickDb = NoTicks
    /\ \/ /\ run = RunStarted("ok")
          /\ \E seriesOf \in [PairSet -> Series], ascending \in BOOLEAN :
                historical = fetchHistoricalCandles(PairSet, seriesOf, ascending)
       \/ /\ run = RunStarted("throws")
          /\ historical = [pair \in PairSet |-> <<>>]
    /\ timeline = getTimestampsFromCandles(historical)
    /\ cursor = 0
    /\ handed = <<>>
    /\ opt = <<>>
    /\ fnArgs = <<>>
    /\ fnResult = <<>>

\* one iteration of the loop of runBacktest over the timestamps
BacktestTick ==
    /\ cursor < Len(timeline)
    /\ LET timestamp == timeline[cursor + 1]
           recent == [pair \in PairSet |->
                         getRecentCandles(historical[pair], timestamp, RecentCount)]
           priced == {pair \in PairSet : Len(recent[pair]) > 0}
           prices == [pair \in priced |-> recent[pair][1].close]
           recentCandlesMap == [pair \in priced |-> recent[pair]]
           skipped == Cardinality(priced) # Cardinality(PairSet)
       IN /\ handed' = [timestamp |-> timestamp,
                        prices |-> prices,
                        recentCandlesMap |-> recentCandlesMap,
                        skipped |-> skipped]
          /\ simA' = IF skipped THEN simA
                     ELSE processCandle(simA, simConfig.config, timestamp,
                                        prices, recentCandlesMap)
    /\ cursor' = cursor + 1
    /\ UNCHANGED <<simConfig, simB, fed, replayed, pausedAt, historical, timeline,
                   promotionVars, tickVars, run, opt, fnVars>>

\* mutant: the error is thrown on without the run being recorded as failed
RethrowUnrecorded ==
    /\ run.status = "running"
    /\ run.outcome = "pending"
    /\ run.fetch = "throws" \/ timeline = <<>>
    /\ run' = [run EXCEPT !.outcome = "throws"]
    /\ UNCHANGED <<simVars, btVars, promotionVars, tickVars, opt, fnVars>>

\* runBacktest: steps 5 and 6 after the loop, recordBacktestComplete and the
\* return of the result
CompleteRun ==
    /\ run.status = "running"
    /\ run.fetch = "ok"
    /\ timeline # <<>>
    /\ cursor = Len(timeline)
    /\ run' = [run EXCEPT
                  !.status = "completed",
                  !.outcome = "returns",
                  !.metrics = calculateMetrics(simA.snapshots, simA.trades,
                                               simConfig.initialCapitalEur)]
    /\ UNCHANGED <<simVars, btVars, promotionVars, tickVars, opt, fnVars>>

\* the message of the error thrown in the try block
ErrorMessage(fetch) ==
    IF fetch = "throws" THEN "Coinbase API 500"
    ELSE "No historical data available for backtest"

\* runBacktest: the catch block, after fetchHistoricalCandles threw or the
\* timestamps were found empty: recordBacktestFailed and the rethrow
FailRun ==
    /\ run.status = "running"
    /\ run.outcome = "pending"
    /\ run.fetch = "throws" \/ timeline = <<>>
    /\ run' = [run EXCEPT !.status = "failed",
                          !.error = ErrorMessage(run.fetch),
                          !.outcome = "throws"]
    /\ UNCHANGED <<simVars, btVars, promotionVars, tickVars, opt, fnVars>>

NextBacktest ==
    \/ BacktestTick
    \/ CompleteRun
    \/ FailRun

SpecBacktest == InitBacktest /\ [][NextBacktest]_vars

\* the places in the series of a pair of the candles that have started by t
Visible(pair, t) ==
    {j \in 1..Len(historical[pair]) : historical[pair][j].start <= t}

\* C20: at the tick for timestamp t, every candle derived for a pair has
\* start <= t, there are at most 24 of them, they are the most recent candles
\* of the pair's series with start <= t, the price of the pair is the close
\* of the candle with the greatest start <= t, and the simulator is called
\* with them exactly when every pair has a price.
C20_NoLookAhead ==
    handed # <<>> =>
        LET t == handed.timestamp
        IN /\ \A pair \in PairSet \ DOMAIN handed.recentCandlesMap :
                  Visible(pair, t) = {}
           /\ DOMAIN handed.prices = DOMAIN handed.recentCandlesMap
           /\ handed.skipped <=> DOMAIN handed.prices # PairSet
           /\ ~handed.skipped =>
                  simA.snapshots[Len(simA.snapshots)].timestamp = DateOf(t)
           /\ \A pair \in DOMAIN handed.recentCandlesMap :
                  LET series == historical[pair]
                      recent == handed.recentCandlesMap[pair]
                      chosen == {j \in Visible(pair, t) :
                                    \E k \in 1..Len(recent) : recent[k] = series[j]}
                  IN /\ \A k \in 1..Len(recent) : recent[k].start <= t
                     /\ Len(recent) <= RecentCount
                     /\ Len(recent) = Min(RecentCount, Cardinality(Visible(pair, t)))
                     /\ Cardinality(chosen) = Len(recent)
                     /\ \A j \in Visible(pair, t) \ chosen, i \in chosen :
                            series[j].start < series[i].start
                     /\ \E j \in Visible(pair, t) :
                            /\ \A i \in Visible(pair, t) :
                                   series[i].start <= series[j].start
                            /\ handed.prices[pair] = series[j].close

\* a tick handed to the simulator at which one pair has more than 24 candles
\* that have started, candles of the future exist, and one pair has no candle
\* starting at the tick
C20_Witness ==
    /\ handed # <<>>
    /\ ~handed.skipped
    /\ \E pair \in PairSet :
          /\ Cardinality(Visible(pair, handed.timestamp)) > RecentCount
          /\ Len(handed.recentCandlesMap[pair]) = RecentCount
          /\ Len(historical[pair]) > Cardinality(Visible(pair, handed.timestamp))
    /\ \E pair \in PairSet :
          \A j \in 1..Len(historical[pair]) :
              historical[pair][j].start # handed.timestamp

\* the timestamps among the first n of the timeline at which every pair has
\* a candle that has started, hence a price
Processed(n) ==
    {k \in 1..n : \A pair \in PairSet : Visible(pair, timeline[k]) # {}}

\* C21: the timestamps runBacktest goes through are strictly increasing and
\* are exactly the distinct candle starts of all pairs; a timestamp gets a
\* processCandle call, hence a snapshot, exactly when every configured pair
\* has a price for it, and the snapshots are in timestamp order.
C21_ClockIsSortedUnionAndSkipsIncomplete ==
    /\ \A k \in 1..(Len(timeline) - 1) : timeline[k] < timeline[k + 1]
    /\ {timeline[k] : k \in 1..Len(timeline)} =
           UNION {{historical[pair][j].start : j \in 1..Len(historical[pair])} :
                     pair \in PairSet}
    /\ Len(simA.snapshots) = Cardinality(Processed(cursor))
    /\ {simA.snapshots[i].timestamp : i \in 1..Len(simA.snapshots)} =
           {DateOf(timeline[k]) : k \in Processed(cursor)}
    /\ \A i \in 1..(Len(simA.snapshots) - 1) :
           simA.snapshots[i].timestamp < simA.snapshots[i + 1].timestamp
    /\ handed # <<>> => (handed.skipped <=> cursor \notin Processed(cursor))

\* a finished run in which ticks were skipped and ticks were processed, over
\* pairs whose series differ
C21_Witness ==
    /\ cursor = Len(timeline)
    /\ cursor > 0
    /\ Processed(cursor) # {}
    /\ Processed(cursor) # 1..cursor
    /\ Len(historical["BTC-EUR"]) < Len(historical["ETH-EUR"])

RunEnded == run.status \in {"completed", "failed"}

\* the call has a next step: a timestamp left in the loop, the completion
\* after the loop, or an error for the catch block
RunCanStep ==
    \/ cursor < Len(timeline)
    \/ run.fetch = "ok" /\ timeline # <<>> /\ cursor = Len(timeline)
    \/ run.outcome = "pending" /\ (run.fetch = "throws" \/ timeline = <<>>)

C23_EmptyRunsCompleteWithZeroMetrics ==
    /\ (RunEnded /\ run.fetch = "ok" /\ timeline # <<>>) =>
           /\ run.status = "completed"
           /\ run.outcome = "returns"
           /\ cursor = Len(timeline)
    /\ (run.status = "completed" /\ simA.snapshots = <<>>) =>
           run.metrics = [totalReturn |-> 0, sharpeRatio |-> 0, maxDrawdown |-> 0,
                          winRate |-> 0, totalTrades |-> 0, combinedScore |-> 0]
    /\ (run.status = "completed" /\ simA.trades = <<>>) =>
           /\ run.metrics.winRate = 0
           /\ run.metrics.totalTrades = 0

\* a completed run in which every timestamp was skipped
C23_Witness ==
    /\ run.status = "completed"
    /\ Len(timeline) = NumSlots
    /\ cursor = Len(timeline)
    /\ handed.skipped
    /\ simA.snapshots = <<>>
    /\ run.metrics.combinedScore = 0

(***************************************************************************)
(* The grid-search optimizer: runOptimization, fineTuneStrategy and        *)
(* compareStrategies.  A backtest is one call of runBacktest, which        *)
(* returns metrics or throws; its combinedScore is in 1/10000.  The grids  *)
(* vary cooldownMinutes and baseWeights, the loops over the other four     *)
(* parameters being held at one value.                                     *)
(***************************************************************************)

OptParams(cooldownMinutes, baseWeights) ==
    [cooldownMinutes |-> cooldownMinutes, baseWeights |-> baseWeights]

\* generateReducedGrid: cooldownMinutes from 20 to 40 in steps of 20 (outer
\* loop), the two reduced weight variations (inner loop)
generateReducedGrid ==
    << OptParams(20, "equal"), OptParams(20, "btcHeavy"),
       OptParams(40, "equal"), OptParams(40, "btcHeavy") >>

RECURSIVE DedupeFrom(_, _, _)
DedupeFrom(list, i, kept) ==
    IF i > Len(list) THEN kept
    ELSE IF \E k \in 1..Len(kept) : kept[k] = list[i]
         THEN DedupeFrom(list, i + 1, kept)
         ELSE DedupeFrom(list, i + 1, Append(kept, list[i]))

\* generateNeighborhoodGrid with stepMultiplier 0.5: the variations -1, 0, 1
\* of cooldownMinutes by 10 * 0.5, clamped to [10, 120], duplicates removed
generateNeighborhoodGrid(baseParams) ==
    LET variations == <<-1, 0, 1>>
        combinations ==
            [v \in 1..3 |->
                OptParams(Max(10, Min(120, baseParams.cooldownMinutes
                                             + variations[v] * 5)),
                          baseParams.baseWeights)]
    IN DedupeFrom(combinations, 1, <<>>)

\* shuffleArray(paramsList).slice(0, n): the first n of any order of the list
Sampled(paramsList, n) ==
    { [k \in 1..n |-> paramsList[f[k]]] :
        f \in { g \in [1..n -> 1..Len(paramsList)] :
                  \A a, b \in 1..n : a # b => g[a] # g[b] } }

\* what one call of runBacktest gives the optimizer: the combinedScore of
\* its result, or Null when it throws
Scores == {50, 5000, 5050}
Outcomes == Scores \cup {Null}

\* the lists runOptimization may loop over: the grid of the mode, sampled
\* down when maxCombinations is set and smaller than the grid
ParamsLists(config) ==
    LET grid == IF config.mode = "neighborhood"
                THEN generateNeighborhoodGrid(config.baseParams)
                ELSE generateReducedGrid
    IN IF config.maxCombinations # Null /\ config.maxCombinations # 0
          /\ Len(grid) > config.maxCombinations
       THEN Sampled(grid, config.maxCombinations)
       ELSE {grid}

\* mutant: equal scores end up in the reverse of the order they were run in
InsertResultBeforeEqual(sorted, entry) ==
    LET before == {k \in 1..Len(sorted) : sorted[k].score > entry.score}
        n == Cardinality(before)
    IN SubSeq(sorted, 1, n) \o <<entry>> \o SubSeq(sorted, n + 1, Len(sorted))

\* one insertion of the stable sort by (a, b) => b.score - a.score
InsertResult(sorted, entry) ==
    LET before == {k \in 1..Len(sorted) : sorted[k].score >= entry.score}
        n == Cardinality(before)
    IN SubSeq(sorted, 1, n) \o <<entry>> \o SubSeq(sorted, n + 1, Len(sorted))

RECURSIVE SortResults(_, _, _)
SortResults(results, i, sorted) ==
    IF i > Len(results) THEN sorted
    ELSE SortResults(results, i + 1, InsertResult(sorted, results[i]))

\* results.slice(0, count) for count >= 0
Slice(list, count) == SubSeq(list, 1, Min(count, Len(list)))

\* runOptimization after its loop: the sort, the slice, the throw or the
\* OptimizationResult
OptimizationTail(st) ==
    LET sorted == SortResults(st.results, 1, <<>>)
        topResultsCount == IF st.config.topResultsCount = Null THEN 5
                           ELSE st.config.topResultsCount
        topResults == Slice(sorted, topResultsCount)
    IN IF Len(topResults) = 0
       THEN [thrown |-> TRUE, error |-> "No successful backtests completed"]
       ELSE [thrown |-> FALSE,
             totalCombinations |-> Len(st.paramsList),
             testedCombinations |-> st.testedCombinations,
             bestParams |-> topResults[1].params,
             bestScore |-> topResults[1].score,
             topResults |-> topResults]

\* the arguments of the calls
MaxIterations == 3
BaseChoices == {OptParams(10, "equal"), OptParams(20, "equal")}
TopResultsCounts == {Null, 0, 1, 2}
MaxCombinationsChoices == {Null, 2}
NoParams == <<>>

OptimizationConfigs ==
    { [mode |-> "reduced", baseParams |-> NoParams,
       topResultsCount |-> t, maxCombinations |-> x] :
         t \in TopResultsCounts, x \in MaxCombinationsChoices }
    \cup
    { [mode |-> "neighborhood", baseParams |-> b,
       topResultsCount |-> t, maxCombinations |-> Null] :
         t \in TopResultsCounts, b \in BaseChoices \cup {NoParams} }

\* a call of the optimizer before its first statement
OptCalled(call, args) ==
    [call |-> call, args |-> args, status |-> "called",
     config |-> <<>>, i |-> 0, currentBest |-> NoParams, rounds |-> <<>>,
     paramsList |-> <<>>, attempts |-> <<>>, outcomes |-> <<>>,
     results |-> <<>>, testedCombinations |-> 0, running |-> {},
     result |-> <<>>, error |-> ""]

OptCalls ==
    { OptCalled("runOptimization", config) : config \in OptimizationConfigs }
    \cup
    { OptCalled("fineTuneStrategy", [baseParams |-> b, iterations |-> n]) :
        b \in BaseChoices, n \in 0..MaxIterations }
    \cup
    { OptCalled("compareStrategies", [paramsA |-> a, paramsB |-> b]) :
        a \in BaseChoices, b \in BaseChoices }

InitOpt ==
    /\ cand = <<>>
    /\ configRow = <<>>
    /\ clock = 0
    /\ last = Call("none", 0, <<>>, "none", FALSE, 0, <<>>, 0, NoPerf)
    /\ pcs = <<>>
    /\ startDb = <<>>
    /\ simConfig = DefaultSimConfig
    /\ simA = NewSimulator(simConfig.initialCapitalEur)
    /\ simB = NewSimulator(simConfig.initialCapitalEur)
    /\ fed = <<>>
    /\ replayed = 0
    /\ pausedAt = {}
    /\ paperPortfolio = <<>>
    /\ livePortfolio = <<>>
    /\ ticked = "none"
    /\ tickDb = NoTicks
    /\ historical = [pair \in PairSet |-> <<>>]
    /\ timeline = <<>>
    /\ cursor = 0
    /\ handed = <<>>
    /\ run = <<>>
    /\ opt \in OptCalls
    /\ fnArgs = <<>>
    /\ fnResult = <<>>

OptFrame == UNCHANGED <<promotionVars, simVars, tickVars, btVars, run, fnVars>>

\* runOptimization up to its loop: the grid of the mode, the sampling
BeginOptimization ==
    /\ opt.call = "runOptimization"
    /\ opt.status = "called"
    /\ IF opt.args.mode = "neighborhood" /\ opt.args.baseParams = NoParams
       THEN opt' = [opt EXCEPT
                       !.status = "thrown",
                       !.error = "baseParams required for neighborhood mode"]
       ELSE \E list \in ParamsLists(opt.args) :
               opt' = [opt EXCEPT !.status = "running",
                                  !.config = opt.args,
                                  !.paramsList = list]
    /\ OptFrame

\* the config fineTuneStrategy passes to runOptimization
NeighborhoodConfig(baseParams) ==
    [mode |-> "neighborhood", baseParams |-> baseParams,
     topResultsCount |-> Null, maxCombinations |-> Null]

\* fineTuneStrategy up to the loop of its first round
BeginFineTune ==
    /\ opt.call = "fineTuneStrategy"
    /\ opt.status = "called"
    /\ IF opt.args.iterations <= 0
       THEN opt' = [opt EXCEPT
                       !.status = "thrown",
                       !.error = "Fine-tuning failed to produce results"]
       ELSE opt' = [opt EXCEPT
                       !.status = "running",
                       !.currentBest = opt.args.baseParams,
                       !.config = NeighborhoodConfig(opt.args.baseParams),
                       !.paramsList =
                           generateNeighborhoodGrid(opt.args.baseParams)]
    /\ OptFrame

\* the loop of runOptimization calls runBacktest for the next combination
StartBacktest ==
    /\ opt.call \in {"runOptimization", "fineTuneStrategy"}
    /\ opt.status = "running"
    /\ opt.running = {}
    /\ Len(opt.attempts) < Len(opt.paramsList)
    /\ opt' = [opt EXCEPT
                  !.attempts = Append(@, opt.paramsList[Len(opt.attempts) + 1]),
                  !.running = {Len(opt.attempts) + 1}]
    /\ OptFrame

\* the awaited runBacktest returns or throws; the catch block only logs
FinishBacktest ==
    /\ opt.call \in {"runOptimization", "fineTuneStrategy"}
    /\ opt.status = "running"
    /\ opt.running # {}
    /\ \E outcome \in Outcomes :
          opt' = [opt EXCEPT
                     !.outcomes = Append(@, outcome),
                     !.results =
                         IF outcome = Null THEN @
                         ELSE Append(@, [params |-> opt.attempts[Len(opt.attempts)],
                                         score |-> outcome]),
                     !.testedCombinations =
                         IF outcome = Null THEN @ ELSE @ + 1,
                     !.running = {}]
    /\ OptFrame

LoopDone ==
    /\ opt.status = "running"
    /\ opt.running = {}
    /\ Len(opt.outcomes) = Len(opt.paramsList)

\* runOptimization after its loop, called directly
ReturnOptimization ==
    /\ opt.call = "runOptimization"
    /\ LoopDone
    /\ LET tail == OptimizationTail(opt)
       IN opt' = IF tail.thrown
                 THEN [opt EXCEPT !.status = "thrown", !.error = tail.error]
                 ELSE [opt EXCEPT !.status = "returned", !.result = tail]
    /\ OptFrame

\* result.topResults[1]?.score ?? 0
RunnerUpScore(result) ==
    IF Len(result.topResults) >= 2 THEN result.topResults[2].score ELSE 0

\* mutant: the early stop is taken after the first round as well
FineTuneStopsEarlyInAnyRound(i, result) ==
    result.bestScore - RunnerUpScore(result) < 100

\* i > 0 && result.bestScore - (result.topResults[1]?.score ?? 0) < 0.01
FineTuneStopsEarly(i, result) ==
    i > 0 /\ result.bestScore - RunnerUpScore(result) < 100

\* fineTuneStrategy: the end of a round's runOptimization, the update of
\* currentBest, the early stop, and the start of the next round or the return
EndRound ==
    /\ opt.call = "fineTuneStrategy"
    /\ LoopDone
    /\ LET tail == OptimizationTail(opt)
       IN IF tail.thrown
          THEN opt' = [opt EXCEPT !.status = "thrown", !.error = tail.error]
          ELSE LET logged == Append(opt.rounds,
                                    [center |-> opt.config.baseParams,
                                     result |-> tail])
               IN IF FineTuneStopsEarly(opt.i, tail)
                     \/ opt.i + 1 >= opt.args.iterations
                  THEN opt' = [opt EXCEPT !.status = "returned",
                                          !.currentBest = tail.bestParams,
                                          !.rounds = logged,
                                          !.result = tail]
                  ELSE opt' = [opt EXCEPT
                                  !.i = @ + 1,
                                  !.currentBest = tail.bestParams,
                                  !.rounds = logged,
                                  !.config = NeighborhoodConfig(tail.bestParams),
                                  !.paramsList =
                                      generateNeighborhoodGrid(tail.bestParams),
                                  !.attempts = <<>>,
                                  !.outcomes = <<>>,
                                  !.results = <<>>,
                                  !.testedCombinations = 0]
    /\ OptFrame

\* compareStrategies: the two runBacktest calls in the argument of
\* Promise.all, each running up to its first await
BeginCompare ==
    /\ opt.call = "compareStrategies"
    /\ opt.status = "called"
    /\ opt' = [opt EXCEPT
                  !.status = "running",
                  !.paramsList = <<opt.args.paramsA, opt.args.paramsB>>,
                  !.attempts = <<opt.args.paramsA, opt.args.paramsB>>,
                  !.outcomes = <<Null, Null>>,
                  !.running = {1, 2}]
    /\ OptFrame

\* one of the two backtests returns or throws; Promise.all rejects with
\* the first rejection
FinishCompareBacktest ==
    /\ opt.call = "compareStrategies"
    /\ \E k \in opt.running, outcome \in Outcomes :
          opt' = [opt EXCEPT
                     !.outcomes[k] = outcome,
                     !.running = @ \ {k},
                     !.status = IF outcome = Null /\ @ = "running"
                                THEN "thrown" ELSE @,
                     !.error = IF outcome = Null /\ opt.status = "running"
                               THEN "Coinbase API 500" ELSE @]
    /\ OptFrame

\* compareStrategies after Promise.all resolved
ReturnCompare ==
    /\ opt.call = "compareStrategies"
    /\ opt.status = "running"
    /\ opt.running = {}
    /\ LET scoreA == opt.outcomes[1]
           scoreB == opt.outcomes[2]
           scoreDiff == scoreA - scoreB
           abs == IF scoreDiff < 0 THEN -scoreDiff ELSE scoreDiff
       IN opt' = [opt EXCEPT
                     !.status = "returned",
                     !.result = [winner |-> IF abs < 100 THEN "tie"
                                            ELSE IF scoreDiff > 0 THEN "A"
                                            ELSE "B",
                                 scoreA |-> scoreA,
                                 scoreB |-> scoreB]]
    /\ OptFrame

NextOpt ==
    \/ BeginOptimization
    \/ BeginFineTune
    \/ StartBacktest
    \/ FinishBacktest
    \/ ReturnOptimization
    \/ EndRound
    \/ BeginCompare
    \/ FinishCompareBacktest
    \/ ReturnCompare

SpecOpt == InitOpt /\ [][NextOpt]_vars

\* C24: the optimizer never has two backtests in progress at once, in
\* runOptimization, fineTuneStrategy or compareStrategies.
C24_OneBacktestAtATime == Cardinality(opt.running) <= 1

\* the number of backtests of the loop that returned a result
Successes == Cardinality({k \in 1..Len(opt.outcomes) : opt.outcomes[k] # Null})

\* C25: when runOptimization has ended, every combination of the list was
\* attempted once in list order, also after one that threw;
\* testedCombinations is the number of backtests that succeeded; and the
\* call has thrown if and only if none succeeded.
C25_EveryCombinationOnceThrowsIffNoSuccess ==
    (opt.call = "runOptimization" /\ opt.status \in {"returned", "thrown"}) =>
        /\ opt.attempts = opt.paramsList
        /\ Len(opt.outcomes) = Len(opt.paramsList)
        /\ opt.testedCombinations = Successes
        /\ opt.status = "returned" =>
               opt.result.testedCombinations = Successes
        /\ opt.status = "thrown" <=> Successes = 0

\* the position at which a combination was run
RunIndex(params) == CHOOSE k \in 1..Len(opt.attempts) : opt.attempts[k] = params

\* C26: topResults of a returned runOptimization is sorted by score in
\* non-increasing order, has min(topResultsCount, successes) entries, which
\* are successful combinations none of the others outscores, entries with
\* equal scores are in the order they were run in, and bestParams and
\* bestScore are those of a successful combination of maximal score.
C26_TopResultsRankedStably ==
    (opt.call \in {"runOptimization", "fineTuneStrategy"}
        /\ opt.status = "returned") =>
        LET top == opt.result.topResults
            count == IF opt.config.topResultsCount = Null THEN 5
                     ELSE opt.config.topResultsCount
            inTop(r) == \E k \in 1..Len(top) : top[k] = r
        IN /\ \A k \in 1..Len(top) - 1 : top[k].score >= top[k + 1].score
           /\ Len(top) = Min(count, Successes)
           /\ \A k \in 1..Len(top) :
                 /\ \E j \in 1..Len(opt.results) : opt.results[j] = top[k]
                 /\ \A j \in 1..Len(opt.results) :
                       ~inTop(opt.results[j]) =>
                           opt.results[j].score <= top[k].score
           /\ \A a, b \in 1..Len(top) :
                 (a < b /\ top[a].score = top[b].score) =>
                     RunIndex(top[a].params) < RunIndex(top[b].params)
           /\ \A j \in 1..Len(opt.results) :
                 opt.results[j].score <= opt.result.bestScore
           /\ \E j \in 1..Len(opt.results) :
                 /\ opt.results[j].params = opt.result.bestParams
                 /\ opt.results[j].score = opt.result.bestScore

\* a returned call with four successes, two of them with the best score,
\* and topResults cut to two entries
C26_Witness ==
    /\ opt.call = "runOptimization"
    /\ opt.status = "returned"
    /\ Successes = 4
    /\ Len(opt.result.topResults) = 2
    /\ opt.result.topResults[1].score = opt.result.topResults[2].score
    /\ opt.outcomes[1] < opt.outcomes[2]

\* a round's best score exceeds its runner-up's score by less than 0.01
FlatRound(result) ==
    /\ Len(result.topResults) >= 2
    /\ result.bestScore - result.topResults[2].score < 100

\* C27: fineTuneStrategy(base, N) runs at most N rounds, round 1 centred on
\* base and each later round on the bestParams of the round before; it stops
\* after any round whose best score exceeds the runner-up's by less than
\* 0.01, so no round but the last is such a round, and a call that ran fewer
\* than N rounds stopped by the early stop; it returns the last round's
\* result.
C27_FineTuneStopsAfterAnyFlatRound ==
    (opt.call = "fineTuneStrategy" /\ opt.status = "returned") =>
        LET n == Len(opt.rounds)
        IN /\ n >= 1 /\ n <= opt.args.iterations
           /\ opt.rounds[1].center = opt.args.baseParams
           /\ \A k \in 2..n :
                 opt.rounds[k].center = opt.rounds[k - 1].result.bestParams
           /\ \A k \in 1..n - 1 : ~FlatRound(opt.rounds[k].result)
           /\ n < opt.args.iterations =>
                 opt.rounds[n].result.bestScore
                    - RunnerUpScore(opt.rounds[n].result) < 100
           /\ opt.result = opt.rounds[n].result

(***************************************************************************)
(* The live Weight Calculator (strategy.ts) next to the simulator's, and   *)
(* calculateMaxDrawdown, as functions applied to drawn arguments.          *)
(***************************************************************************)

\* mutant: the weights are returned as they are given
NormalizeWeightsUnscaled(weights, pairs) ==
    [pair \in {pairs[k] : k \in 1..Len(pairs)} |-> AtOrZero(weights, pair)]

\* strategy: normalizeWeights
normalizeWeights(weights, pairs) ==
    LET total == SumSeq([k \in 1..Len(pairs) |-> AtOrZero(weights, pairs[k])])
    IN [pair \in {pairs[k] : k \in 1..Len(pairs)} |->
           IF total = 0 THEN Quot(One, Len(pairs))
           ELSE Quot(AtOrZero(weights, pair) * One, total)]

\* strategy: the raw weight of one pair in calculateTargetWeights, the RSI
\* compared with 70 and 30
LiveRawWeight(pairs, pair, candles, baseWeights) ==
    LET base == IF pair \in DOMAIN baseWeights THEN baseWeights[pair]
                ELSE Quot(One, Len(pairs))
        pairCandles == IF pair \in DOMAIN candles THEN candles[pair] ELSE <<>>
        momentumTilt == Max(-1500, Min(1500, calculate4hMomentum(pairCandles)))
        tilted == base + momentumTilt
        rsi == calculateRSI([i \in 1..Len(pairCandles) |-> pairCandles[i].close])
        weight == IF rsi > 7000 THEN Quot(tilted * 8, 10)
                  ELSE IF rsi < 3000 THEN Quot(tilted * 12, 10)
                  ELSE tilted
    IN Max(0, weight)

\* strategy: calculateTargetWeights; aiWeights null is the empty mapping,
\* which takes the same branch
calculateTargetWeights(pairs, prices, candles, baseWeights, aiWeights) ==
    IF DOMAIN aiWeights # {}
    THEN normalizeWeights(aiWeights, pairs)
    ELSE normalizeWeights(
             [pair \in {pairs[k] : k \in 1..Len(pairs)} |->
                 LiveRawWeight(pairs, pair, candles, baseWeights)],
             pairs)

\* the closes of a candle list whose deltas alternate between up and down
RECURSIVE Alternating(_, _, _, _)
Alternating(n, close, up, down) ==
    IF n = 0 THEN <<>>
    ELSE <<close>> \o Alternating(n - 1, close + up, down, up)

\* candle lists by kind, the most recent candle first: two flat candles (RSI 50, momentum 0); 15 candles
\* with RSI 72; 15 candles with RSI 32; 16 falling candles (RSI 0)
CandleKinds == {"short", "rsi72", "rsi32", "falling"}
ClosesOf(kind) ==
    CASE kind = "short" -> <<1000, 1000>>
      [] kind = "rsi72" -> Alternating(15, 1000, 18, -7)
      [] kind = "rsi32" -> Alternating(15, 1000, 8, -17)
      [] OTHER -> [k \in 1..16 |-> 1000 - 10 * k]
CandlesOfKind(kind) ==
    LET closes == ClosesOf(kind)
    IN [k \in 1..Len(closes) |-> Candle((Len(closes) - k) * GranSec, closes[k])]

\* base weights: the default ones, all zero, one key only
BaseWeightChoices ==
    { DefaultStrategyParams.baseWeights,
      ("BTC-EUR" :> 0 @@ "ETH-EUR" :> 0 @@ "SOL-EUR" :> 0),
      ("BTC-EUR" :> 5000) }

\* advisory weights as analyzeMarket leaves them (clamped to [0, 0.6], then
\* scaled to sum to 1 unless all are 0): none, for every pair, for one pair,
\* for a pair and a key that is no configured pair, all zero
AiWeightChoices ==
    { <<>>,
      ("BTC-EUR" :> 5000 @@ "ETH-EUR" :> 3000 @@ "SOL-EUR" :> 2000),
      ("BTC-EUR" :> 10000),
      ("BTC-EUR" :> 5000 @@ "DOGE-EUR" :> 5000),
      ("BTC-EUR" :> 0 @@ "ETH-EUR" :> 0 @@ "SOL-EUR" :> 0) }

\* rsiOversoldThreshold and rsiOverboughtThreshold of the parameter ranges
ThresholdChoices == { <<30, 70>>, <<25, 75>>, <<35, 65>> }

\* portfolio values of a snapshot sequence, in tenths of a euro
DrawdownValues == {9000, 9500, 10000, 11000}
MaxSnapshots == 4
\* the trades of a list handed to calculateWinRate: BTC-EUR bought or sold
\* for 50 or 100 EUR at 100, 160 or 200 EUR, ETH-EUR bought at 100 or sold
\* at 160 (SimulatedTrade: pair, side, amountEur, price)
SimulatedTrade(pair, side, amountEur, price) ==
    [pair |-> pair, side |-> side, amountEur |-> amountEur,
     price |-> price * 100 * PriceUnit]
MaxTrades == 4
TradeKinds ==
    { SimulatedTrade("BTC-EUR", side, amountEur, price) :
        side \in {"BUY", "SELL"}, amountEur \in {500, 1000},
        price \in {100, 160, 200} }
    \cup { SimulatedTrade("ETH-EUR", "BUY", 1000, 100),
           SimulatedTrade("ETH-EUR", "SELL", 1000, 160) }

(* The paper-trading history and its evaluation.  The tables paper_trades  *)
(* and paper_pnl_history are sets of rows, no two of one table with the    *)
(* same timestamp.                                                         *)

\* .order("timestamp", { ascending: false }): the rows, newest first
RECURSIVE NewestFirst(_)
NewestFirst(rows) ==
    IF rows = {} THEN <<>>
    ELSE LET newest == CHOOSE r \in rows : \A q \in rows : q.timestamp <= r.timestamp
         IN <<newest>> \o NewestFirst(rows \ {newest})

\* paper-store.getPaperPnLHistory(limit), getPaperTrades(limit)
getPaperPnLHistory(rows, limit) == Slice(NewestFirst(rows), limit)
getPaperTrades(rows, limit) == Slice(NewestFirst(rows), limit)

\* evaluator.evaluatePaperPerformance with the tables it reads: the
\* snapshots and trades it hands to calculateMetrics, and the metrics
PaperPerformance(pnlRows, tradeRows, strategyId, initialCapital) ==
    LET pnlHistory == getPaperPnLHistory(pnlRows, 1000)
        trades == getPaperTrades(tradeRows, 1000)
        relevantPnL == SelectSeq(pnlHistory, LAMBDA p : p.strategyId = strategyId)
        relevantTrades == SelectSeq(trades, LAMBDA t : t.strategyId = strategyId)
        snapshots == [k \in 1..Len(relevantPnL) |->
                         [timestamp |-> relevantPnL[k].timestamp,
                          totalValueEur |-> relevantPnL[k].totalValueEur]]
        simulatedTrades == [k \in 1..Len(relevantTrades) |->
                               [timestamp |-> relevantTrades[k].timestamp,
                                pair |-> relevantTrades[k].pair,
                                side |-> relevantTrades[k].side,
                                amountEur |-> relevantTrades[k].amountEur,
                                price |-> relevantTrades[k].price]]
    IN [snapshots |-> snapshots,
        trades |-> simulatedTrades,
        metrics |-> calculateMetrics(snapshots, simulatedTrades, initialCapital)]

\* rows of paper_pnl_history: at each of three times no point or a point of
\* strategy s1 or s2 worth 900, 1000 or 1100 EUR
PnLTables ==
    { { [timestamp |-> t, totalValueEur |-> at[t][1], strategyId |-> at[t][2]] :
          t \in {u \in 1..3 : at[u] # <<>>} } :
        at \in [1..3 -> {<<>>} \cup ({9000, 10000, 11000} \X {"s1", "s2"})] }

\* rows of paper_trades: none, or a purchase of s1 with a later sale
PaperTradeRow(timestamp, side, price) ==
    [timestamp |-> timestamp, pair |-> "BTC-EUR", side |-> side,
     amountEur |-> 1000, price |-> price * 100 * PriceUnit, strategyId |-> "s1"]
PaperTradeTables ==
    { {},
      {PaperTradeRow(1, "BUY", 100), PaperTradeRow(2, "SELL", 160)},
      {PaperTradeRow(1, "BUY", 160), PaperTradeRow(3, "SELL", 100)} }

(* generateNeighborhoodGrid with all of its five loops.  maxTradePercent   *)
(* and stopLossPercent are in 1/1000, cooldownMinutes in minutes, the RSI  *)
(* thresholds in tenths, stepMultiplier in tenths.                         *)
GridParams(maxTradePercent, stopLossPercent, cooldownMinutes,
           rsiOversoldThreshold, rsiOverboughtThreshold, baseWeights) ==
    [maxTradePercent |-> maxTradePercent,
     stopLossPercent |-> stopLossPercent,
     cooldownMinutes |-> cooldownMinutes,
     rsiOversoldThreshold |-> rsiOversoldThreshold,
     rsiOverboughtThreshold |-> rsiOverboughtThreshold,
     baseWeights |-> baseWeights]

\* Math.max(low, Math.min(high, x))
Clamp(low, high, x) == Max(low, Min(high, x))

\* the combinations pushed by the five nested loops, the loop of
\* maxTradePercent outermost, before the duplicates are removed
NeighborhoodCombinations(baseParams, stepMultiplier) ==
    LET variations == <<-1, 0, 1>>
        Var(n, loop) == variations[(((n - 1) \div 3^(5 - loop)) % 3) + 1]
    IN [n \in 1..243 |->
           GridParams(
               Clamp(50, 400, baseParams.maxTradePercent
                                + Quot(Var(n, 1) * 50 * stepMultiplier, 10)),
               Clamp(20, 150, baseParams.stopLossPercent
                                + Quot(Var(n, 2) * 10 * stepMultiplier, 10)),
               Clamp(10, 120, baseParams.cooldownMinutes
                                + Quot(Var(n, 3) * 10 * stepMultiplier, 10)),
               Clamp(200, 400, baseParams.rsiOversoldThreshold
                                 + Quot(Var(n, 4) * 50 * stepMultiplier, 10)),
               Clamp(600, 800, baseParams.rsiOverboughtThreshold
                                 + Quot(Var(n, 5) * 50 * stepMultiplier, 10)),
               baseParams.baseWeights)]

\* combinations.filter(...) from index low to index high: a combination
\* stays when none before it has the same JSON text
RECURSIVE FirstOfEach(_, _, _)
FirstOfEach(combinations, low, high) ==
    IF low > high THEN <<>>
    ELSE IF low = high
    THEN IF \E k \in 1..(low - 1) : combinations[k] = combinations[low]
         THEN <<>>
         ELSE <<combinations[low]>>
    ELSE LET middle == (low + high) \div 2
         IN FirstOfEach(combinations, low, middle)
              \o FirstOfEach(combinations, middle + 1, high)

\* mutant: the combinations as pushed, duplicates included
NeighborhoodGridWithDuplicates(baseParams, stepMultiplier) ==
    NeighborhoodCombinations(baseParams, stepMultiplier)

\* generateNeighborhoodGrid(baseParams, stepMultiplier)
NeighborhoodGrid(baseParams, stepMultiplier) ==
    LET combinations == NeighborhoodCombinations(baseParams, stepMultiplier)
    IN FirstOfEach(combinations, 1, Len(combinations))

\* base parameters below, within, at and above the bounds
BaseParamsChoices ==
    { GridParams(maxTradePercent, stopLossPercent, cooldownMinutes,
                 rsiOversoldThreshold, rsiOverboughtThreshold, baseWeights) :
        maxTradePercent \in {30, 200, 400},
        stopLossPercent \in {20, 50},
        cooldownMinutes \in {5, 60, 118},
        rsiOversoldThreshold \in {200, 300},
        rsiOverboughtThreshold \in {700, 850},
        baseWeights \in {"equal", "btcHeavy"} }

\* arguments of computeRebalanceTrades: the key order of targetWeights, the
\* weights it maps the keys to, current weights (none, equal ones, all in
\* BTC, BTC and ETH only) and portfolio values in tenths of a euro
KeyOrders ==
    {<<>>, <<"BTC-EUR">>, <<"ETH-EUR", "BTC-EUR">>, DEFAULT_PAIRS,
     <<"SOL-EUR", "BTC-EUR", "ETH-EUR">>, <<"DOGE-EUR", "BTC-EUR">>}
TargetValues == {0, 3333, 6000, 10000}
CurrentWeightChoices ==
    {<<>>,
     [pair \in PairSet |-> 3333],
     [pair \in PairSet |-> IF pair = "BTC-EUR" THEN 10000 ELSE 0],
     [pair \in {"BTC-EUR", "ETH-EUR"} |-> IF pair = "BTC-EUR" THEN 5990 ELSE 4010]}
RebalanceValues == {0, 1000, 10000}

\* metrics handed to calculateCombinedScore: returns from -100 % to +200 %,
\* Sharpe ratios within [-3, 3], drawdowns and win rates within [0, 1]
ScoreInputs ==
    [totalReturn : {-10000, -5000, -2500, 0, 5000, 10000, 20000},
     sharpeRatio : {-300, -100, 0, 100, 300},
     maxDrawdown : {0, 2500, 5000, 10000},
     winRate : {0, 5000, 10000}]

\* portfolio values that rise or fall by a tenth from one to the next
SharpeValues == {729, 810, 900, 1000, 1100, 1210, 1331}
SnapshotsOf(values) == [k \in 1..Len(values) |-> [totalValueEur |-> values[k]]]

InitFn ==
    /\ cand = <<>>
    /\ configRow = <<>>
    /\ clock = 0
    /\ last = Call("none", 0, <<>>, "none", FALSE, 0, <<>>, 0, NoPerf)
    /\ pcs = <<>>
    /\ startDb = <<>>
    /\ simConfig = DefaultSimConfig
    /\ simA = NewSimulator(simConfig.initialCapitalEur)
    /\ simB = NewSimulator(simConfig.initialCapitalEur)
    /\ fed = <<>>
    /\ replayed = 0
    /\ pausedAt = {}
    /\ paperPortfolio = <<>>
    /\ livePortfolio = <<>>
    /\ ticked = "none"
    /\ tickDb = NoTicks
    /\ historical = [pair \in PairSet |-> <<>>]
    /\ timeline = <<>>
    /\ cursor = 0
    /\ handed = <<>>
    /\ run = <<>>
    /\ opt = <<>>
    /\ \/ \E kindOf \in [PairSet -> CandleKinds],
             baseWeights \in BaseWeightChoices,
             aiWeights \in AiWeightChoices,
             thresholds \in ThresholdChoices :
               fnArgs = [fn |-> "calculateTargetWeights",
                         pairs |-> DEFAULT_PAIRS,
                         candles |-> [pair \in PairSet |->
                                         CandlesOfKind(kindOf[pair])],
                         baseWeights |-> baseWeights,
                         aiWeights |-> aiWeights,
                         rsiOversoldThreshold |-> thresholds[1],
                         rsiOverboughtThreshold |-> thresholds[2]]
       \/ \E n \in 0..MaxSnapshots :
             \E values \in [1..n -> DrawdownValues] :
                fnArgs = [fn |-> "calculateMaxDrawdown", values |-> values]
       \/ \E n \in 0..MaxSnapshots :
             \E values \in [1..n -> SharpeValues] :
                fnArgs = [fn |-> "calculateSharpeRatio", values |-> values]
       \/ \E n \in 0..MaxTrades :
             \E trades \in [1..n -> TradeKinds] :
                fnArgs = [fn |-> "calculateWinRate", trades |-> trades]
       \/ \E keys \in KeyOrders, currentWeights \in CurrentWeightChoices,
             totalValue \in RebalanceValues, minTradeSize \in {0, 50, 100},
             maxTradePercent \in {20, 100} :
             \E targetWeights \in [{keys[k] : k \in 1..Len(keys)} -> TargetValues] :
                fnArgs = [fn |-> "computeRebalanceTrades",
                          keys |-> keys,
                          currentWeights |-> currentWeights,
                          targetWeights |-> targetWeights,
                          totalValue |-> totalValue,
                          minTradeSize |-> minTradeSize,
                          maxTradePercent |-> maxTradePercent]
       \/ \E baseParams \in BaseParamsChoices, stepMultiplier \in {5, 10} :
             fnArgs = [fn |-> "generateNeighborhoodGrid",
                       baseParams |-> baseParams,
                       stepMultiplier |-> stepMultiplier]
       \/ \E pnlRows \in PnLTables, tradeRows \in PaperTradeTables :
             fnArgs = [fn |-> "evaluatePaperPerformance",
                       pnlRows |-> pnlRows,
                       tradeRows |-> tradeRows,
                       strategyId |-> "s1",
                       initialCapital |-> DEFAULT_INITIAL_CAPITAL]
       \/ \E metrics \in ScoreInputs :
             fnArgs = [fn |-> "calculateCombinedScore", metrics |-> metrics]
    /\ fnResult = <<>>

\* the config of a simulator with the drawn strategy parameters
SimConfigOf(args) ==
    [pairs |-> args.pairs,
     strategyParams |->
         [DefaultStrategyParams EXCEPT
             !.baseWeights = args.baseWeights,
             !.rsiOversoldThreshold = args.rsiOversoldThreshold,
             !.rsiOverboughtThreshold = args.rsiOverboughtThreshold],
     minTradeSizeEur |-> MIN_TRADE_SIZE_EUR]

\* the live calculator and the simulator's are applied to the same arguments
ApplyTargetWeights ==
    /\ fnArgs.fn = "calculateTargetWeights"
    /\ fnResult = <<>>
    /\ fnResult' =
           [live |-> calculateTargetWeights(fnArgs.pairs, <<>>, fnArgs.candles,
                                            fnArgs.baseWeights, fnArgs.aiWeights),
            simulator |-> SimTargetWeights(SimConfigOf(fnArgs), <<>>,
                                           fnArgs.candles)]
    /\ UNCHANGED <<promotionVars, simVars, tickVars, btVars, optVars, fnArgs>>

ApplyMaxDrawdown ==
    /\ fnArgs.fn = "calculateMaxDrawdown"
    /\ fnResult = <<>>
    /\ fnResult' =
           [maxDrawdown |-> calculateMaxDrawdown(SnapshotsOf(fnArgs.values))]
    /\ UNCHANGED <<promotionVars, simVars, tickVars, btVars, optVars, fnArgs>>

ApplySharpeRatio ==
    /\ fnArgs.fn = "calculateSharpeRatio"
    /\ fnResult = <<>>
    /\ fnResult' =
           [sharpeRatio |-> calculateSharpeRatio(SnapshotsOf(fnArgs.values))]
    /\ UNCHANGED <<promotionVars, simVars, tickVars, btVars, optVars, fnArgs>>

ApplyWinRate ==
    /\ fnArgs.fn = "calculateWinRate"
    /\ fnResult = <<>>
    /\ fnResult' = [winRate |-> calculateWinRate(fnArgs.trades)]
    /\ UNCHANGED <<promotionVars, simVars, tickVars, btVars, optVars, fnArgs>>

ApplyRebalanceTrades ==
    /\ fnArgs.fn = "computeRebalanceTrades"
    /\ fnResult = <<>>
    /\ fnResult' = [trades |-> computeRebalanceTrades(
                                  fnArgs.keys, fnArgs.currentWeights,
                                  fnArgs.targetWeights, fnArgs.totalValue,
                                  fnArgs.minTradeSize, fnArgs.maxTradePercent)]
    /\ UNCHANGED <<promotionVars, simVars, tickVars, btVars, optVars, fnArgs>>

ApplyNeighborhoodGrid ==
    /\ fnArgs.fn = "generateNeighborhoodGrid"
    /\ fnResult = <<>>
    /\ fnResult' = [grid |-> NeighborhoodGrid(fnArgs.baseParams,
                                              fnArgs.stepMultiplier)]
    /\ UNCHANGED <<promotionVars, simVars, tickVars, btVars, optVars, fnArgs>>

ApplyPaperPerformance ==
    /\ fnArgs.fn = "evaluatePaperPerformance"
    /\ fnResult = <<>>
    /\ fnResult' = PaperPerformance(fnArgs.pnlRows, fnArgs.tradeRows,
                                    fnArgs.strategyId, fnArgs.initialCapital)
    /\ UNCHANGED <<promotionVars, simVars, tickVars, btVars, optVars, fnArgs>>

ScoreOf(metrics) ==
    calculateCombinedScore(metrics.totalReturn, metrics.sharpeRatio,
                           metrics.maxDrawdown, metrics.winRate)

ApplyCombinedScore ==
    /\ fnArgs.fn = "calculateCombinedScore"
    /\ fnResult = <<>>
    /\ fnResult' = [combinedScore |-> ScoreOf(fnArgs.metrics)]
    /\ UNCHANGED <<promotionVars, simVars, tickVars, btVars, optVars, fnArgs>>

NextFn ==
    \/ ApplyTargetWeights
    \/ ApplyMaxDrawdown
    \/ ApplySharpeRatio
    \/ ApplyCombinedScore
    \/ ApplyWinRate
    \/ ApplyRebalanceTrades
    \/ ApplyNeighborhoodGrid
    \/ ApplyPaperPerformance

SpecFn == InitFn /\ [][NextFn]_vars

SumOfWeights(weights, pairs) ==
    SumSeq([k \in 1..Len(pairs) |-> weights[pairs[k]]])

\* a weight mapping with one entry per pair, no negative entry, and entries
\* summing to 1 up to the rounding of the entries
IsWeightMapping(weights, pairs) ==
    /\ DOMAIN weights = {pairs[k] : k \in 1..Len(pairs)}
    /\ \A pair \in DOMAIN weights : weights[pair] >= 0
    /\ SumOfWeights(weights, pairs) <= One
    /\ SumOfWeights(weights, pairs) > One - Len(pairs)

\* C28: every mapping the weight calculators return (advisory and indicator
\* path of the live one, the simulator's) has one entry per pair, no
\* negative entry, and entries summing to 1; when every raw weight is 0 each
\* pair gets 1 / number of pairs.
C28_WeightsAreNormalized ==
    (fnResult # <<>> /\ fnArgs.fn = "calculateTargetWeights") =>
        LET pairs == fnArgs.pairs
            advisory == DOMAIN fnArgs.aiWeights # {}
            rawZero ==
                IF advisory
                THEN \A pair \in PairSet : AtOrZero(fnArgs.aiWeights, pair) = 0
                ELSE \A pair \in PairSet :
                        LiveRawWeight(pairs, pair, fnArgs.candles,
                                      fnArgs.baseWeights) = 0
            simRawZero ==
                \A pair \in PairSet :
                    RawWeight(SimConfigOf(fnArgs), pair, fnArgs.candles) = 0
        IN /\ IsWeightMapping(fnResult.live, pairs)
           /\ IsWeightMapping(fnResult.simulator, pairs)
           /\ rawZero =>
                 \A pair \in PairSet : fnResult.live[pair] = Quot(One, Len(pairs))
           /\ simRawZero =>
                 \A pair \in PairSet :
                    fnResult.simulator[pair] = Quot(One, Len(pairs))

\* the advisory path with a weight for one pair only, next to an indicator
\* result of the simulator that is not the equal split
C28_Witness ==
    /\ fnResult # <<>>
    /\ fnArgs.fn = "calculateTargetWeights"
    /\ DOMAIN fnArgs.aiWeights = {"BTC-EUR"}
    /\ fnResult.live["BTC-EUR"] = One
    /\ fnResult.live["ETH-EUR"] = 0
    /\ fnResult.simulator["BTC-EUR"] # fnResult.simulator["SOL-EUR"]

\* C29: without advisory weights the simulator's weights are exactly the
\* live calculator's, whatever rsiOversoldThreshold and
\* rsiOverboughtThreshold are.
C29_SimulatorWeightsEqualLiveWeights ==
    (fnResult # <<>> /\ fnArgs.fn = "calculateTargetWeights"
        /\ DOMAIN fnArgs.aiWeights = {}) =>
        fnResult.simulator = fnResult.live

\* the largest of a set of numbers that has 0 in it
Largest(S) == CHOOSE x \in S : \A y \in S : y <= x

\* C30: calculateMaxDrawdown is the largest (v_i - v_j) / v_i over i <= j;
\* it is 0 for a non-decreasing sequence, 0.10 for [1000, 900, 950], and
\* within [0, 1].
C30_MaxDrawdownIsLargestDeclineFromEarlierValue ==
    (fnResult # <<>> /\ fnArgs.fn = "calculateMaxDrawdown") =>
        LET v == fnArgs.values
            n == Len(v)
            earlier == { Quot((v[ij[1]] - v[ij[2]]) * One, v[ij[1]]) :
                           ij \in {p \in (1..n) \X (1..n) : p[1] <= p[2]} }
        IN /\ fnResult.maxDrawdown = Largest(earlier \cup {0})
           /\ (\A k \in 1..n - 1 : v[k] <= v[k + 1]) => fnResult.maxDrawdown = 0
           /\ v = <<10000, 9000, 9500>> => fnResult.maxDrawdown = 1000
           /\ fnResult.maxDrawdown >= 0
           /\ fnResult.maxDrawdown <= One

\* the sequence [1000, 900, 950] with its drawdown of 0.10
C30_Witness ==
    /\ fnResult # <<>>
    /\ fnArgs.fn = "calculateMaxDrawdown"
    /\ fnArgs.values = <<10000, 9000, 9500>>
    /\ fnResult.maxDrawdown = 1000

\* C31: calculateSharpeRatio is within [-3, 3]; it is 0 with fewer than two
\* snapshots; and when the returns between consecutive snapshots are all
\* equal it is exactly 3 if they are positive and 0 otherwise.
C31_SharpeOfConstantReturns ==
    (fnResult # <<>> /\ fnArgs.fn = "calculateSharpeRatio") =>
        LET v == fnArgs.values
            n == Len(v)
            equalReturns ==
                \A i, j \in 1..n - 1 :
                    (v[i + 1] - v[i]) * v[j] = (v[j + 1] - v[j]) * v[i]
        IN /\ fnResult.sharpeRatio >= -300
           /\ fnResult.sharpeRatio <= 300
           /\ n < 2 => fnResult.sharpeRatio = 0
           /\ (n >= 2 /\ equalReturns) =>
                 fnResult.sharpeRatio = IF v[2] > v[1] THEN 300 ELSE 0

\* the four weighted terms of the score written piecewise, in 1/10000
ReturnTerm(totalReturn) ==
    IF totalReturn <= -5000 THEN 0
    ELSE IF totalReturn >= 10000 THEN 3000
    ELSE Quot(totalReturn + 5000, 5)
SharpeTerm(sharpeRatio) ==
    IF sharpeRatio <= -100 THEN 0
    ELSE IF sharpeRatio >= 300 THEN 3000
    ELSE Quot((sharpeRatio + 100) * 15, 2)
DrawdownTerm(maxDrawdown) ==
    IF maxDrawdown >= 5000 THEN 0
    ELSE IF maxDrawdown <= 0 THEN 2500
    ELSE Quot(One - 2 * maxDrawdown, 4)
WinRateTerm(winRate) ==
    IF winRate <= 0 THEN 0
    ELSE IF winRate >= One THEN 1500
    ELSE Quot(winRate * 15, 100)

\* C32: combinedScore is within [0, 1]; it is 0.3 * clamp((totalReturn +
\* 0.5) / 1.5) + 0.3 * clamp((sharpe + 1) / 4) + 0.25 * clamp(1 - 2 *
\* maxDrawdown) + 0.15 * clamp(winRate), up to the rounding of one unit per
\* term; and metrics with no smaller return, Sharpe ratio and win rate and
\* no larger drawdown never score less.
C32_CombinedScoreBoundedAndMonotone ==
    (fnResult # <<>> /\ fnArgs.fn = "calculateCombinedScore") =>
        LET m == fnArgs.metrics
            terms == ReturnTerm(m.totalReturn) + SharpeTerm(m.sharpeRatio)
                       + DrawdownTerm(m.maxDrawdown) + WinRateTerm(m.winRate)
        IN /\ fnResult.combinedScore >= 0
           /\ fnResult.combinedScore <= One
           /\ Abs(fnResult.combinedScore - terms) <= 4
           /\ \A better \in ScoreInputs :
                 (/\ better.totalReturn >= m.totalReturn
                  /\ better.sharpeRatio >= m.sharpeRatio
                  /\ better.winRate >= m.winRate
                  /\ better.maxDrawdown <= m.maxDrawdown) =>
                     ScoreOf(better) >= fnResult.combinedScore

\* a return above the cap of +100 % with the best other metrics scores 1
C32_Witness ==
    /\ fnResult # <<>>
    /\ fnArgs.fn = "calculateCombinedScore"
    /\ fnArgs.metrics.totalReturn = 20000
    /\ fnArgs.metrics.sharpeRatio = 300
    /\ fnArgs.metrics.maxDrawdown = 0
    /\ fnArgs.metrics.winRate = One
    /\ fnResult.combinedScore = One

\* the wins among one pair's trades from the k-th on when the entry price
\* is the average of the BUYs since the position was opened, each weighted
\* by its amount: bought is the sum of their amounts, paid the sum of
\* price * amount
RECURSIVE WinsByBuyAverage(_, _, _, _, _)
WinsByBuyAverage(pairTrades, k, position, bought, paid) ==
    IF k > Len(pairTrades) THEN 0
    ELSE LET trade == pairTrades[k]
             amount == trade.amountEur \div 500
             price == trade.price \div (100 * PriceUnit)
         IN IF trade.side = "BUY"
            THEN IF position <= 0
                 THEN WinsByBuyAverage(pairTrades, k + 1, amount, amount,
                                       price * amount)
                 ELSE WinsByBuyAverage(pairTrades, k + 1, position + amount,
                                       bought + amount, paid + price * amount)
            ELSE (IF position > 0 /\ price * bought > paid THEN 1 ELSE 0)
                   + (IF position - amount <= 0
                      THEN WinsByBuyAverage(pairTrades, k + 1, 0, 0, 0)
                      ELSE WinsByBuyAverage(pairTrades, k + 1, position - amount,
                                            bought, paid))

\* the wins when a SELL takes from every earlier BUY of the position in
\* proportion, so that a later BUY of amount a weighs a against the part of
\* the position still open: the entry price is paid / weight
RECURSIVE WinsByOpenAverage(_, _, _, _, _)
WinsByOpenAverage(pairTrades, k, position, weight, paid) ==
    IF k > Len(pairTrades) THEN 0
    ELSE LET trade == pairTrades[k]
             amount == trade.amountEur \div 500
             price == trade.price \div (100 * PriceUnit)
         IN IF trade.side = "BUY"
            THEN IF position <= 0
                 THEN WinsByOpenAverage(pairTrades, k + 1, amount, 1, price)
                 ELSE WinsByOpenAverage(pairTrades, k + 1, position + amount,
                                        weight * (position + amount),
                                        paid * position + price * amount * weight)
            ELSE (IF position > 0 /\ price * weight > paid THEN 1 ELSE 0)
                   + (IF position - amount <= 0
                      THEN WinsByOpenAverage(pairTrades, k + 1, 0, 0, 0)
                      ELSE WinsByOpenAverage(pairTrades, k + 1, position - amount,
                                             weight, paid))

PairsTraded(trades) == {trades[k].pair : k \in 1..Len(trades)}

RECURSIVE SumOverPairs(_, _, _)
SumOverPairs(Wins(_), trades, pairsLeft) ==
    IF pairsLeft = {} THEN 0
    ELSE LET pair == CHOOSE x \in pairsLeft : TRUE
         IN Wins(TradesOfPair(trades, pair))
              + SumOverPairs(Wins, trades, pairsLeft \ {pair})

BuyAverageWins(pairTrades) == WinsByBuyAverage(pairTrades, 1, 0, 0, 0)
OpenAverageWins(pairTrades) == WinsByOpenAverage(pairTrades, 1, 0, 0, 0)

\* C33 as stated: the win rate is the wins over all trades of all pairs, a
\* SELL being a win exactly when a position is open and its price exceeds
\* the amount-weighted average price of the BUYs since the position was
\* opened; it is within [0, 1] and 0 for no trades.
C33_WinRateByAverageOfBuys ==
    (fnResult # <<>> /\ fnArgs.fn = "calculateWinRate") =>
        LET trades == fnArgs.trades
        IN /\ fnResult.winRate >= 0
           /\ fnResult.winRate <= One
           /\ trades = <<>> => fnResult.winRate = 0
           /\ trades # <<>> =>
                 fnResult.winRate =
                     Quot(SumOverPairs(BuyAverageWins, trades, PairsTraded(trades))
                            * One, Len(trades))

\* C33 amended: the same with the entry price of an open position averaged
\* over its BUYs after every SELL has taken from them in proportion, that
\* is, a BUY into an open position weighs its amount against the part of
\* the position still open.
C33_WinRateByAverageOfOpenPosition ==
    (fnResult # <<>> /\ fnArgs.fn = "calculateWinRate") =>
        LET trades == fnArgs.trades
        IN /\ fnResult.winRate >= 0
           /\ fnResult.winRate <= One
           /\ trades = <<>> => fnResult.winRate = 0
           /\ trades # <<>> =>
                 fnResult.winRate =
                     Quot(SumOverPairs(OpenAverageWins, trades, PairsTraded(trades))
                            * One, Len(trades))

\* a position bought at 100, half of it sold at 160, bought again at 200 and
\* sold at 200: two wins in four trades
C33_Witness ==
    /\ fnResult # <<>>
    /\ fnArgs.fn = "calculateWinRate"
    /\ fnArgs.trades = << SimulatedTrade("BTC-EUR", "BUY", 1000, 100),
                          SimulatedTrade("BTC-EUR", "SELL", 500, 160),
                          SimulatedTrade("BTC-EUR", "BUY", 1000, 200),
                          SimulatedTrade("BTC-EUR", "SELL", 500, 200) >>
    /\ fnResult.winRate = 5000

----------------------------------------------------------------------------
(* The tables the ticks write *)

\* a step of LiveTick, PaperTick: every request advances the time
LiveTicked == ticked' = "live" /\ tickDb'.now = tickDb.now + 1
PaperTicked == ticked' = "paper" /\ tickDb'.now = tickDb.now + 1

\* C34 as stated: every authorised call of the live trading tick leaves the
\* time of the call as lastTickTime, also when it returns early because
\* trading is disabled, paused by drawdown or in cooldown.
C34_EveryLiveTickUpdatesLastTickTime ==
    [][LiveTicked => tickDb'.state = tickDb'.now]_vars

\* the paper portfolio is paused
PaperPaused(stored) == stored # <<>> /\ stored[1].drawdownPaused

----------------------------------------------------------------------------
(* The orders of a rebalance *)

\* (target - current) * totalValue for a pair, in tenths of a euro
DeltaOf(args, pair) ==
    Quot((AtOrZero(args.targetWeights, pair) - AtOrZero(args.currentWeights, pair))
           * args.totalValue, One)

\* C35: computeRebalanceTrades emits the pairs whose |delta| is at least
\* minTradeSize, each once and in the key order of the targets, as a BUY
\* for a positive and a SELL for a negative delta, with the amount
\* min(|delta|, totalValue * maxTradePercent), which never exceeds
\* totalValue * maxTradePercent.
C35_OneCappedOrderPerPair ==
    (fnResult # <<>> /\ fnArgs.fn = "computeRebalanceTrades") =>
        LET trades == fnResult.trades
            maxSize == Quot(fnArgs.totalValue * fnArgs.maxTradePercent, 100)
            Emitted(pair) == Abs(DeltaOf(fnArgs, pair)) >= fnArgs.minTradeSize
            emitted == SelectSeq(fnArgs.keys, Emitted)
        IN /\ Len(trades) = Len(emitted)
           /\ \A i \in 1..Len(trades) :
                  LET deltaEur == DeltaOf(fnArgs, emitted[i])
                  IN /\ trades[i].pair = emitted[i]
                     /\ deltaEur > 0 => trades[i].side = "BUY"
                     /\ deltaEur < 0 => trades[i].side = "SELL"
                     /\ trades[i].amountEur = Min(Abs(deltaEur), maxSize)
                     /\ trades[i].amountEur <= maxSize
           /\ \A i, j \in 1..Len(trades) :
                  trades[i].pair = trades[j].pair => i = j

\* SOL-EUR is bought, BTC-EUR sold with the capped amount and ETH-EUR, whose
\* delta is below the minimum, left alone
C35_Witness ==
    /\ fnResult # <<>>
    /\ fnArgs.fn = "computeRebalanceTrades"
    /\ fnArgs.keys = <<"SOL-EUR", "BTC-EUR", "ETH-EUR">>
    /\ Len(fnResult.trades) = 2
    /\ fnResult.trades[1].side = "BUY"
    /\ fnResult.trades[2].pair = "BTC-EUR"
    /\ fnResult.trades[2].side = "SELL"
    /\ fnResult.trades[2].amountEur = Quot(fnArgs.totalValue * fnArgs.maxTradePercent, 100)
    /\ Abs(DeltaOf(fnArgs, "BTC-EUR")) > fnResult.trades[2].amountEur
    /\ DeltaOf(fnArgs, "ETH-EUR") # 0

----------------------------------------------------------------------------
(* The neighbourhood grid *)

\* the base value of a parameter moved by -1, 0 or 1 steps and clamped
Neighbours(base, step, stepMultiplier, low, high) ==
    { Clamp(low, high, base + Quot(v * step * stepMultiplier, 10)) : v \in {-1, 0, 1} }

WithinBounds(params) ==
    /\ params.maxTradePercent \in 50..400
    /\ params.stopLossPercent \in 20..150
    /\ params.cooldownMinutes \in 10..120
    /\ params.rsiOversoldThreshold \in 200..400
    /\ params.rsiOverboughtThreshold \in 600..800

\* C36: generateNeighborhoodGrid returns at most 243 combinations, no two of
\* them equal, each with the baseWeights of the base parameters and with
\* every numeric parameter the base value plus -1, 0 or +1 scaled steps,
\* clamped to [0.05, 0.4], [0.02, 0.15], [10, 120], [20, 40] and [60, 80];
\* base parameters within those bounds are among the combinations.
C36_NeighborhoodGridIsClampedAndUnique ==
    (fnResult # <<>> /\ fnArgs.fn = "generateNeighborhoodGrid") =>
        LET grid == fnResult.grid
            base == fnArgs.baseParams
            m == fnArgs.stepMultiplier
        IN /\ Len(grid) <= 243
           /\ \A i, j \in 1..Len(grid) : grid[i] = grid[j] => i = j
           /\ \A i \in 1..Len(grid) :
                  /\ grid[i].baseWeights = base.baseWeights
                  /\ grid[i].maxTradePercent
                         \in Neighbours(base.maxTradePercent, 50, m, 50, 400)
                  /\ grid[i].stopLossPercent
                         \in Neighbours(base.stopLossPercent, 10, m, 20, 150)
                  /\ grid[i].cooldownMinutes
                         \in Neighbours(base.cooldownMinutes, 10, m, 10, 120)
                  /\ grid[i].rsiOversoldThreshold
                         \in Neighbours(base.rsiOversoldThreshold, 50, m, 200, 400)
                  /\ grid[i].rsiOverboughtThreshold
                         \in Neighbours(base.rsiOverboughtThreshold, 50, m, 600, 800)
           /\ WithinBounds(base) => \E i \in 1..Len(grid) : grid[i] = base

\* a base at the upper bound of maxTradePercent and near that of
\* cooldownMinutes: clamping makes combinations equal, 108 are left, the
\* base among them
C36_Witness ==
    /\ fnResult # <<>>
    /\ fnArgs.fn = "generateNeighborhoodGrid"
    /\ WithinBounds(fnArgs.baseParams)
    /\ fnArgs.baseParams.maxTradePercent = 400
    /\ fnArgs.baseParams.cooldownMinutes = 118
    /\ fnArgs.stepMultiplier = 5
    /\ Len(fnResult.grid) = 2 * 3 * 3 * 2 * 3
    /\ \E i \in 1..Len(fnResult.grid) : fnResult.grid[i] = fnArgs.baseParams

----------------------------------------------------------------------------
(* The balances of the simulator *)

\* the balances of A after the first k trades of the tick a step makes
BalancesDuringTick(k) ==
    LET executed == SubSeq(simA'.trades, Len(simA.trades) + 1, Len(simA.trades) + k)
        call == fed'[Len(fed')]
    IN ExecuteTrades(simA, call.timestamp, executed, 1, PricesOf(call.market)).balances

\* C37: no processCandle call makes a balance of the simulator negative:
\* the EUR balance is at least 0 after each trade of a tick and after the
\* tick, and so is every coin balance.  (Amounts are rounded to a tenth of
\* a euro and to 1/10000 coin; a balance counts as negative here from one
\* euro or 0.001 coin below 0 on.)
C37_NoNegativeBalance ==
    [][TickOfA =>
          \A k \in 0..(Len(simA'.trades) - Len(simA.trades)) :
              LET balances == BalancesDuringTick(k)
              IN /\ balances["EUR"] > -10
                 /\ \A coin \in {"BTC", "ETH", "SOL"} : balances[coin] > -10]_vars

----------------------------------------------------------------------------
(* The evaluation of the paper-trading history *)

\* a list is in ascending order of timestamp
OldestFirst(list) ==
    \A i, j \in 1..Len(list) : i < j => list[i].timestamp < list[j].timestamp

\* C38: evaluatePaperPerformance hands calculateMetrics the paper snapshots
\* and the paper trades of the candidate oldest first, and the totalReturn
\* of the paper metrics is that of the newest paper snapshot.
C38_PaperHistoryHandedOldestFirst ==
    (fnResult # <<>> /\ fnArgs.fn = "evaluatePaperPerformance") =>
        LET own == {r \in fnArgs.pnlRows : r.strategyId = fnArgs.strategyId}
        IN /\ OldestFirst(fnResult.snapshots)
           /\ OldestFirst(fnResult.trades)
           /\ own # {} =>
                 LET newest == CHOOSE r \in own : \A q \in own : q.timestamp <= r.timestamp
                 IN fnResult.metrics.totalReturn =
                        Quot((newest.totalValueEur - fnArgs.initialCapital) * One,
                             fnArgs.initialCapital)

====
